---- MODULE Spec2Model ----
(***************************************************************************)
(* A model of serde-querystring: percent decoding, the four query-string   *)
(* parsers and the serde binding built on top of them.                     *)
(* Bytes are natural numbers below 256; a slice is a sequence of bytes.    *)
(* Rust indices are 0-based: At(s, i) is s[i], Sub(s, a, b) is s[a..b].    *)
(***************************************************************************)
EXTENDS Naturals, Integers, Sequences, FiniteSets, TLC

VARIABLES
  \* percent decoder (decode.rs): its arguments, loop state and result
  slice, cursor, index, scratch, decoded, dpc,
  \* a from_bytes call: the query as its '&'-separated parts, the parse
  \* mode with the delimiter byte of ParseMode::Delimiter, the target type,
  \* the parser's table and the returned Result; for a request handled by
  \* a web extractor, the configured error handler and what the extractor
  \* returns
  parts, mode, delimiter, ehandler, response, target, table, result, pc

decodeVars == <<slice, cursor, index, scratch, decoded, dpc>>
callVars == <<parts, mode, delimiter, ehandler, response, target, table, result, pc>>
vars == <<slice, cursor, index, scratch, decoded, dpc,
          parts, mode, delimiter, ehandler, response, target, table, result, pc>>

\* ------------------------------------------------------------------------
\* Bounds
\* ------------------------------------------------------------------------
MaxLen == 5
MaxPairs == 3

\* ------------------------------------------------------------------------
\* Byte constants
\* ------------------------------------------------------------------------
PCT == 37
PLUS == 43
SPACE == 32
AMP == 38
EQ == 61
LBR == 91
RBR == 93

At(s, i) == s[i + 1]
Sub(s, a, b) == SubSeq(s, a + 1, b)
From(s, a) == SubSeq(s, a + 1, Len(s))

\* char::to_digit(16): -1 stands for None
to_digit16(c) ==
  IF c >= 48 /\ c <= 57 THEN c - 48
  ELSE IF c >= 97 /\ c <= 102 THEN c - 87
  ELSE IF c >= 65 /\ c <= 70 THEN c - 55
  ELSE -1

\* parse_char(h, l): -1 stands for None
parse_char(h, l) ==
  IF to_digit16(h) >= 0 /\ to_digit16(l) >= 0
  THEN to_digit16(h) * 16 + to_digit16(l)
  ELSE -1

\* A decoder that drops the two bytes after a '%' that starts no escape.
parse_bytes_step_skip(s, st) ==
  LET c == At(s, st.cursor) IN
  IF c = PLUS
  THEN [index |-> st.cursor + 1, cursor |-> st.cursor + 1,
        scratch |-> st.scratch \o Sub(s, st.index, st.cursor) \o <<SPACE>>]
  ELSE IF c = PCT
  THEN IF Len(s) > st.cursor + 2
       THEN LET b == parse_char(At(s, st.cursor + 1), At(s, st.cursor + 2)) IN
            IF b >= 0
            THEN [index |-> st.cursor + 3, cursor |-> st.cursor + 3,
                  scratch |-> st.scratch \o Sub(s, st.index, st.cursor) \o <<b>>]
            ELSE [st EXCEPT !.cursor = st.cursor + 3]
       ELSE [st EXCEPT !.cursor = st.cursor + 1]
  ELSE [st EXCEPT !.cursor = st.cursor + 1]

\* One iteration of the while loop of parse_bytes on the loop state
\* st = [index, cursor, scratch].
parse_bytes_step(s, st) ==
  LET c == At(s, st.cursor) IN
  IF c = PLUS
  THEN [index |-> st.cursor + 1, cursor |-> st.cursor + 1,
        scratch |-> st.scratch \o Sub(s, st.index, st.cursor) \o <<SPACE>>]
  ELSE IF c = PCT
  THEN IF Len(s) > st.cursor + 2
       THEN LET b == parse_char(At(s, st.cursor + 1), At(s, st.cursor + 2)) IN
            IF b >= 0
            THEN [index |-> st.cursor + 3, cursor |-> st.cursor + 3,
                  scratch |-> st.scratch \o Sub(s, st.index, st.cursor) \o <<b>>]
            ELSE [st EXCEPT !.cursor = st.cursor + 1]
       ELSE [st EXCEPT !.cursor = st.cursor + 1]
  ELSE [st EXCEPT !.cursor = st.cursor + 1]

\* A decoder that always hands out its scratch buffer.
parse_bytes_finish_copy(s, st) ==
  [tag |-> "Copied", bytes |-> st.scratch \o Sub(s, st.index, st.cursor)]

\* The tail of parse_bytes after the loop: the returned Reference.
parse_bytes_finish(s, st) ==
  IF st.scratch = <<>>
  THEN [tag |-> "Borrowed", bytes |-> Sub(s, st.index, st.cursor)]
  ELSE [tag |-> "Copied", bytes |-> st.scratch \o Sub(s, st.index, st.cursor)]

RECURSIVE parse_bytes_loop(_, _)
parse_bytes_loop(s, st) ==
  IF st.cursor < Len(s)
  THEN parse_bytes_loop(s, parse_bytes_step(s, st))
  ELSE parse_bytes_finish(s, st)

\* parse_bytes(slice, scratch): scratch is cleared on entry.
parse_bytes(s) == parse_bytes_loop(s, [index |-> 0, cursor |-> 0, scratch |-> <<>>])


\* ------------------------------------------------------------------------
\* Flat parsers: parsers/urlencoded.rs, parsers/duplicate.rs and
\* parsers/delimiter.rs share Key::parse, Value::parse, Pair::parse and
\* skip_len
\* ------------------------------------------------------------------------
None == [some |-> FALSE, bytes |-> <<>>]
Some(b) == [some |-> TRUE, bytes |-> b]

\* Option<&[u8]>::unwrap_or_default
unwrap_or_default(o) == IF o.some THEN o.bytes ELSE <<>>

\* Key::parse: the length of the key at the start of s
RECURSIVE Key_parse(_, _)
Key_parse(s, i) ==
  IF i < Len(s) /\ At(s, i) # AMP /\ At(s, i) # EQ
  THEN Key_parse(s, i + 1)
  ELSE i

\* the scan of Value::parse: the first index >= i of s holding '&'
RECURSIVE Value_scan(_, _)
Value_scan(s, i) ==
  IF i < Len(s) /\ At(s, i) # AMP THEN Value_scan(s, i + 1) ELSE i

\* Value::parse on the rest of the slice after the key
Value_parse(s) ==
  IF Len(s) = 0 THEN None
  ELSE IF At(s, 0) = AMP THEN None
  ELSE Some(Sub(s, 1, Value_scan(s, 1)))

\* Pair::parse
Pair_parse(s) ==
  LET klen == Key_parse(s, 0) IN
  [key |-> Sub(s, 0, klen), value |-> Value_parse(From(s, klen))]

\* A skip length that does not count the '=' and '&' separators.
skip_len_bare(pair) ==
  IF pair.value.some
  THEN Len(pair.key) + Len(pair.value.bytes)
  ELSE Len(pair.key)

\* Pair::skip_len
skip_len(pair) ==
  IF pair.value.some
  THEN Len(pair.key) + Len(pair.value.bytes) + 2
  ELSE Len(pair.key) + 1

\* BTreeMap::insert / get_mut followed by assignment
\* An insert that forgets every other key of the table.
Put_only(map, k, v) == (k :> v)

\* BTreeMap::insert, or the update through get_mut
Put(map, k, v) == [x \in (DOMAIN map) \cup {k} |-> IF x = k THEN v ELSE map[x]]

EmptyMap == [x \in {} |-> None]

\* UrlEncodedQS::parse: a repeated key overwrites its pair
RECURSIVE UrlEncodedQS_parse(_, _, _)
UrlEncodedQS_parse(s, i, pairs) ==
  IF i < Len(s)
  THEN LET pair == Pair_parse(From(s, i))
           decoded_key == parse_bytes(pair.key).bytes
       IN UrlEncodedQS_parse(s, i + skip_len(pair), Put(pairs, decoded_key, pair))
  ELSE pairs

\* DuplicateQS::parse: a repeated key pushes its pair
RECURSIVE DuplicateQS_parse(_, _, _)
DuplicateQS_parse(s, i, pairs) ==
  IF i < Len(s)
  THEN LET pair == Pair_parse(From(s, i))
           decoded_key == parse_bytes(pair.key).bytes
       IN DuplicateQS_parse(s, i + skip_len(pair),
            IF decoded_key \in DOMAIN pairs
            THEN Put(pairs, decoded_key, Append(pairs[decoded_key], pair))
            ELSE Put(pairs, decoded_key, <<pair>>))
  ELSE pairs

\* DelimiterQS::parse: a repeated key overwrites its pair; the value is
\* split lazily
RECURSIVE DelimiterQS_parse(_, _, _)
DelimiterQS_parse(s, i, pairs) ==
  IF i < Len(s)
  THEN LET pair == Pair_parse(From(s, i))
           decoded_key == parse_bytes(pair.key).bytes
       IN DelimiterQS_parse(s, i + skip_len(pair), Put(pairs, decoded_key, pair))
  ELSE pairs


\* ------------------------------------------------------------------------
\* Scalars read from one value slice: de/slices.rs
\* ------------------------------------------------------------------------
Ok(v) == [ok |-> TRUE, v |-> v]
Err(kind) == [ok |-> FALSE, kind |-> kind]

IsDigit(c) == c >= 48 /\ c <= 57

\* atoi's from_radix_10_signed_checked after the sign: the digits from
\* index i on are folded into acc with checked arithmetic in lo..hi;
\* over is TRUE once a checked step failed.
RECURSIVE from_radix_10(_, _, _, _, _, _, _)
from_radix_10(text, i, neg, acc, over, lo, hi) ==
  IF i < Len(text) /\ IsDigit(At(text, i))
  THEN LET d == At(text, i) - 48
           fits == IF neg THEN acc >= (lo + d + 9) \div 10
                          ELSE acc <= (hi - d) \div 10
       IN IF over \/ ~fits
          THEN from_radix_10(text, i + 1, neg, 0, TRUE, lo, hi)
          ELSE from_radix_10(text, i + 1, neg,
                             IF neg THEN acc * 10 - d ELSE acc * 10 + d,
                             FALSE, lo, hi)
  ELSE [value |-> acc, over |-> over, len |-> i]

\* RawSlice::parse_int for an integer type with range lo..hi
parse_int(raw, lo, hi) ==
  IF Len(raw) = 0 THEN Err("InvalidNumber")
  ELSE LET signed == At(raw, 0) = 43 \/ At(raw, 0) = 45
           r == from_radix_10(raw, IF signed THEN 1 ELSE 0, At(raw, 0) = 45,
                              0, FALSE, lo, hi)
       IN IF ~r.over /\ r.len = Len(raw)
          THEN Ok([k |-> "int", n |-> r.value])
          ELSE Err("InvalidNumber")

\* "on", "off", "true", "false"
LitOn == <<111, 110>>
LitOff == <<111, 102, 102>>
LitTrue == <<116, 114, 117, 101>>
LitFalse == <<102, 97, 108, 115, 101>>

\* A conversion that reads the empty value as false.
parse_bool_empty_false(raw) ==
  IF Len(raw) = 0 THEN Ok([k |-> "bool", b |-> FALSE])
  ELSE IF raw = <<49>> \/ raw = LitOn \/ raw = LitTrue THEN Ok([k |-> "bool", b |-> TRUE])
  ELSE IF raw = <<48>> \/ raw = LitOff \/ raw = LitFalse THEN Ok([k |-> "bool", b |-> FALSE])
  ELSE Err("InvalidBoolean")

\* RawSlice::parse_bool
parse_bool(raw) ==
  IF Len(raw) = 0 THEN Ok([k |-> "bool", b |-> TRUE])
  ELSE IF raw = <<49>> THEN Ok([k |-> "bool", b |-> TRUE])
  ELSE IF raw = <<48>> THEN Ok([k |-> "bool", b |-> FALSE])
  ELSE IF raw = LitOn THEN Ok([k |-> "bool", b |-> TRUE])
  ELSE IF raw = LitOff THEN Ok([k |-> "bool", b |-> FALSE])
  ELSE IF raw = LitTrue THEN Ok([k |-> "bool", b |-> TRUE])
  ELSE IF raw = LitFalse THEN Ok([k |-> "bool", b |-> FALSE])
  ELSE Err("InvalidBoolean")

IsCont(c) == c >= 128 /\ c <= 191

\* str::from_utf8: TRUE iff b[i..] is well-formed UTF-8
RECURSIVE from_utf8(_, _)
from_utf8(b, i) ==
  IF i >= Len(b) THEN TRUE
  ELSE LET c == At(b, i)
           n == Len(b) - i
       IN IF c < 128 THEN from_utf8(b, i + 1)
          ELSE IF c >= 194 /\ c <= 223
          THEN n >= 2 /\ IsCont(At(b, i + 1)) /\ from_utf8(b, i + 2)
          ELSE IF c >= 224 /\ c <= 239
          THEN /\ n >= 3
               /\ IsCont(At(b, i + 1)) /\ IsCont(At(b, i + 2))
               /\ (c = 224 => At(b, i + 1) >= 160)
               /\ (c = 237 => At(b, i + 1) <= 159)
               /\ from_utf8(b, i + 3)
          ELSE IF c >= 240 /\ c <= 244
          THEN /\ n >= 4
               /\ IsCont(At(b, i + 1)) /\ IsCont(At(b, i + 2)) /\ IsCont(At(b, i + 3))
               /\ (c = 240 => At(b, i + 1) >= 144)
               /\ (c = 244 => At(b, i + 1) <= 143)
               /\ from_utf8(b, i + 4)
          ELSE FALSE

\* RawSlice::parse_str: the decoded Reference, or InvalidEncoding
parse_str(raw) ==
  LET r == parse_bytes(raw) IN
  IF from_utf8(r.bytes, 0) THEN Ok(r) ELSE Err("InvalidEncoding")


\* ------------------------------------------------------------------------
\* Target types and bound values
\*   [k |-> "int", lo, hi]  [k |-> "bool"]  [k |-> "string"]  [k |-> "str"]
\*   [k |-> "newtype", e]   [k |-> "seq", e]   [k |-> "tuple", n, e]
\*   [k |-> "map", e]       [k |-> "struct", f]   [k |-> "enum", vs]
\* with enum variants [k |-> "unit"], [k |-> "newtype", e],
\* [k |-> "tuple", n, e] and [k |-> "struct", f].
\* ------------------------------------------------------------------------
IsScalar(shape) == shape.k \in {"int", "bool", "string", "str"}

\* Result::and_then, and the `?` operator: an error is passed on unchanged
and_then(r, F(_)) == IF r.ok THEN F(r.v) ELSE r

\* The deserializer over one raw slice (de/traits.rs SliceDeserializer with
\* the scalar conversions of de/slices.rs).  Collection targets are
\* forwarded to deserialize_any, whose visit_str the visitor rejects with
\* Error::invalid_type; an enum is named by the decoded slice and only its
\* unit variants are served (UnitOnly).
RECURSIVE SliceDeserializer(_, _)
SliceDeserializer(raw, shape) ==
  CASE shape.k = "int" -> parse_int(raw, shape.lo, shape.hi)
    [] shape.k = "bool" -> parse_bool(raw)
    [] shape.k = "string" ->
         and_then(parse_str(raw), LAMBDA v : Ok([k |-> "string", s |-> v.bytes]))
    [] shape.k = "str" ->
         and_then(parse_str(raw),
                  LAMBDA v : IF v.tag = "Borrowed" THEN Ok([k |-> "string", s |-> v.bytes])
                             ELSE Err("InvalidType"))
    [] shape.k = "newtype" ->
         and_then(SliceDeserializer(raw, shape.e),
                  LAMBDA v : Ok([k |-> "newtype", v |-> v]))
    [] shape.k = "option" ->
         IF Len(raw) = 0 THEN Ok([k |-> "none"])
         ELSE and_then(SliceDeserializer(raw, shape.e),
                       LAMBDA v : Ok([k |-> "some", v |-> v]))
    [] shape.k = "enum" ->
         LET name == parse_bytes(raw).bytes IN
         IF name \notin DOMAIN shape.vs THEN Err("Other")
         ELSE IF shape.vs[name].k = "unit"
         THEN Ok([k |-> "enum", variant |-> name, v |-> [k |-> "unit"]])
         ELSE Err("Custom")
    [] OTHER ->
         IF parse_str(raw).ok THEN Err("InvalidType") ELSE Err("InvalidEncoding")

\* SeqAccess over a list of raw slices, each element read by the slice
\* deserializer; the first failing element ends the visit.
RECURSIVE visit_seq(_, _, _, _)
visit_seq(items, i, shape, acc) ==
  IF i > Len(items) THEN Ok([k |-> "seq", items |-> acc])
  ELSE and_then(SliceDeserializer(items[i], shape),
                LAMBDA v : visit_seq(items, i + 1, shape, Append(acc, v)))

\* A fixed-arity visitor (tuple, array): it asks for n elements and fails
\* with serde's invalid_length, which the Error type keeps as Other, when
\* the access ends early; elements after the n-th are not asked for.
visit_tuple(items, n, shape) ==
  and_then(visit_seq(SubSeq(items, 1, IF Len(items) < n THEN Len(items) ELSE n),
                     1, shape, <<>>),
           LAMBDA v : IF Len(items) < n THEN Err("Other") ELSE Ok(v))

\* '|', the delimiter of ParseMode::Delimiter in most of the tests
Delimiter == 124

\* ';' and ',', the pair and value separators of the depth-limited engine;
\* ',' is also a delimiter of ParseMode::Delimiter in the tests
SEMI == 59
COMMA == 44

\* An iterator that hands out the raw values of a key newest first.
DuplicateValueIter_rev(pairs) ==
  [kind |-> "dup",
   items |-> [i \in 1..Len(pairs) |-> unwrap_or_default(pairs[Len(pairs) + 1 - i].value)]]

\* DuplicateQS::into_iter for one key: the raw values of its pairs
DuplicateValueIter(pairs) ==
  [kind |-> "dup", items |-> [i \in 1..Len(pairs) |-> unwrap_or_default(pairs[i].value)]]

\* DelimiterQS::into_iter for one key
SeparatorValues(pair) ==
  [kind |-> "sep", slice |-> unwrap_or_default(pair.value)]

\* SizedValuesIterator::next until it returns None: it = [index, remaining],
\* remaining = -1 stands for None; the iterator's delimiter is that of the
\* call
RECURSIVE SizedValuesIterator(_, _, _)
RECURSIVE SizedValuesIterator_split(_, _, _)
\* An iterator that goes on splitting when one value remains.
SizedValuesIterator_split(sl, it, acc) ==
  IF it.index >= Len(sl) THEN acc
  ELSE IF it.remaining = 0 THEN acc
  ELSE LET hits == {j \in it.index..(Len(sl) - 1) : At(sl, j) = delimiter}
           dec == IF it.remaining = -1 THEN -1 ELSE it.remaining - 1
       IN IF hits # {}
          THEN LET end == CHOOSE j \in hits : \A h \in hits : j <= h IN
               SizedValuesIterator_split(sl, [index |-> end + 1, remaining |-> dec],
                                         Append(acc, Sub(sl, it.index, end)))
          ELSE SizedValuesIterator_split(sl, [index |-> Len(sl), remaining |-> dec],
                                         Append(acc, From(sl, it.index)))

SizedValuesIterator(sl, it, acc) ==
  IF it.index >= Len(sl) THEN acc
  ELSE IF it.remaining = 0 THEN acc
  ELSE IF it.remaining = 1
  THEN SizedValuesIterator(sl, [it EXCEPT !.remaining = 0], Append(acc, From(sl, it.index)))
  ELSE LET hits == {j \in it.index..(Len(sl) - 1) : At(sl, j) = delimiter}
           dec == IF it.remaining = -1 THEN -1 ELSE it.remaining - 1
       IN IF hits # {}
          THEN LET end == CHOOSE j \in hits : \A h \in hits : j <= h IN
               SizedValuesIterator(sl, [index |-> end + 1, remaining |-> dec],
                                   Append(acc, Sub(sl, it.index, end)))
          ELSE SizedValuesIterator(sl, [index |-> Len(sl), remaining |-> dec],
                                   Append(acc, From(sl, it.index)))

\* A sized iterator that ignores the number of values it was asked for.
into_sized_iterator_any(vals, size) ==
  IF vals.kind = "dup"
  THEN Ok(vals.items)
  ELSE Ok(SizedValuesIterator(vals.slice, [index |-> 0, remaining |-> size], <<>>))

\* IntoRawSlices::into_sized_iterator
into_sized_iterator(vals, size) ==
  IF vals.kind = "dup"
  THEN IF Len(vals.items) = size THEN Ok(vals.items) ELSE Err("InvalidLength")
  ELSE Ok(SizedValuesIterator(vals.slice, [index |-> 0, remaining |-> size], <<>>))

\* IntoRawSlices::into_unsized_iterator
into_unsized_iterator(vals) ==
  IF vals.kind = "dup"
  THEN vals.items
  ELSE SizedValuesIterator(vals.slice, [index |-> 0, remaining |-> -1], <<>>)

\* A single slice that is the first value instead of the last.
into_single_slice_first(vals) ==
  IF vals.kind = "dup" THEN vals.items[1] ELSE vals.slice

\* IntoRawSlices::into_single_slice
into_single_slice(vals) ==
  IF vals.kind = "dup" THEN vals.items[Len(vals.items)] ELSE vals.slice

\* The deserializer over the values of one key: a sequence target takes
\* the unsized iterator, a fixed-arity target the sized one, and any other
\* target the single slice.
RECURSIVE ValuesDeserializer(_, _)
ValuesDeserializer(vals, shape) ==
  CASE shape.k = "seq" -> visit_seq(into_unsized_iterator(vals), 1, shape.e, <<>>)
    [] shape.k = "tuple" ->
         and_then(into_sized_iterator(vals, shape.n),
                  LAMBDA it : visit_tuple(it, shape.n, shape.e))
    [] shape.k = "newtype" ->
         and_then(ValuesDeserializer(vals, shape.e),
                  LAMBDA v : Ok([k |-> "newtype", v |-> v]))
    [] OTHER -> SliceDeserializer(into_single_slice(vals), shape)


\* ------------------------------------------------------------------------
\* Bracket parser: parsers/brackets.rs
\* A Key is [key, rem]: the current part and the yet-to-be parsed part.
\* ------------------------------------------------------------------------
\* Key::parse_remains: the key and the length of the remains
RECURSIVE parse_remains(_, _, _)
parse_remains(key, s, i) ==
  IF i < Len(s) /\ At(s, i) # AMP /\ At(s, i) # EQ
  THEN parse_remains(key, s, i + 1)
  ELSE [key |-> key, rem |-> Some(Sub(s, 0, i)), len |-> i]

RECURSIVE Brackets_Key_parse(_, _)
\* A key parser that keeps an opening bracket as literal text of the key
\* when no closing bracket follows it in the key.
Brackets_Key_parse_literal(s, i) ==
  LET end == Key_parse(s, 0)
      closed(from) == \E j \in from..(end - 1) :
                        \/ At(s, j) = RBR
                        \/ /\ At(s, j) = PCT /\ j + 2 < Len(s)
                           /\ parse_char(At(s, j + 1), At(s, j + 2)) = RBR
  IN IF i >= Len(s) THEN [key |-> Sub(s, 0, i), rem |-> None, len |-> i]
     ELSE IF At(s, i) = LBR /\ closed(i + 1)
     THEN LET res == parse_remains(Sub(s, 0, i), From(s, i + 1), 0) IN
          [res EXCEPT !.len = res.len + i + 1]
     ELSE IF At(s, i) = PCT /\ i + 2 < Len(s)
             /\ parse_char(At(s, i + 1), At(s, i + 2)) = LBR /\ closed(i + 3)
     THEN LET res == parse_remains(Sub(s, 0, i), From(s, i + 3), 0) IN
          [res EXCEPT !.len = res.len + i + 3]
     ELSE IF At(s, i) = AMP \/ At(s, i) = EQ
     THEN [key |-> Sub(s, 0, i), rem |-> None, len |-> i]
     ELSE Brackets_Key_parse(s, i + 1)

\* Key::parse (brackets): the key and its length in the slice
Brackets_Key_parse(s, i) ==
  IF i >= Len(s) THEN [key |-> Sub(s, 0, i), rem |-> None, len |-> i]
  ELSE IF At(s, i) = LBR
  THEN LET res == parse_remains(Sub(s, 0, i), From(s, i + 1), 0) IN
       [res EXCEPT !.len = res.len + i + 1]
  ELSE IF At(s, i) = PCT
  THEN IF i + 2 < Len(s) /\ parse_char(At(s, i + 1), At(s, i + 2)) = LBR
       THEN LET res == parse_remains(Sub(s, 0, i), From(s, i + 3), 0) IN
            [res EXCEPT !.len = res.len + i + 3]
       ELSE Brackets_Key_parse(s, i + 1)
  ELSE IF At(s, i) = AMP \/ At(s, i) = EQ
  THEN [key |-> Sub(s, 0, i), rem |-> None, len |-> i]
  ELSE Brackets_Key_parse(s, i + 1)

RECURSIVE subkey_scan(_, _)
\* A scan that ends a sub-key at a plain ']' only.
subkey_scan_plain(r, i) ==
  IF i >= Len(r) THEN [index |-> i, key_end_index |-> i]
  ELSE IF At(r, i) = RBR THEN [index |-> i, key_end_index |-> i]
  ELSE subkey_scan(r, i + 1)

\* the scan of Key::subkey over the remains: [index, key_end_index]
subkey_scan(r, i) ==
  IF i >= Len(r) THEN [index |-> i, key_end_index |-> i]
  ELSE IF At(r, i) = RBR THEN [index |-> i, key_end_index |-> i]
  ELSE IF At(r, i) = PCT /\ i + 2 < Len(r)
          /\ parse_char(At(r, i + 1), At(r, i + 2)) = RBR
  THEN [index |-> i + 2, key_end_index |-> i]
  ELSE subkey_scan(r, i + 1)

NoKey == [some |-> FALSE, key |-> <<>>, rem |-> None]

\* Key::subkey
subkey(k) ==
  IF ~k.rem.some THEN NoKey
  ELSE LET r == k.rem.bytes
           sc == subkey_scan(r, 0)
           i == sc.index
           sub == Sub(r, 0, sc.key_end_index)
       IN IF i + 1 < Len(r) /\ At(r, i + 1) = LBR
          THEN [some |-> TRUE, key |-> sub, rem |-> Some(From(r, i + 2))]
          ELSE IF i + 3 < Len(r) /\ At(r, i + 1) = PCT
                  /\ parse_char(At(r, i + 2), At(r, i + 3)) = LBR
          THEN [some |-> TRUE, key |-> sub, rem |-> Some(From(r, i + 4))]
          ELSE [some |-> TRUE, key |-> sub, rem |-> None]

\* Key::has_subkey
has_subkey(k) ==
  /\ k.rem.some
  /\ \E i \in 0..(Len(k.rem.bytes) - 1) :
       \/ At(k.rem.bytes, i) = RBR
       \/ /\ At(k.rem.bytes, i) = PCT
          /\ i + 2 < Len(k.rem.bytes)
          /\ parse_char(At(k.rem.bytes, i + 1), At(k.rem.bytes, i + 2)) = RBR

\* Key::is_empty
is_empty(k) ==
  IF k.rem.some THEN k.key = <<>> /\ k.rem.bytes = <<>> ELSE k.key = <<>>

\* Value::parse (brackets): the value and the length it took
Brackets_Value_parse(s) ==
  IF Len(s) = 0 THEN [value |-> None, len |-> 0]
  ELSE IF At(s, 0) = AMP THEN [value |-> None, len |-> 0]
  ELSE LET i == Value_scan(s, 1) IN [value |-> Some(Sub(s, 1, i)), len |-> i]

\* Pair::parse (brackets): the pair and its skip length
Brackets_Pair_parse(s) ==
  LET k == Brackets_Key_parse(s, 0)
      v == Brackets_Value_parse(From(s, k.len))
  IN [pair |-> [key |-> k.key, rem |-> k.rem, value |-> v.value],
      len |-> k.len + v.len + 1]

\* BracketsQS::parse: pairs grouped by decoded root key, in input order
RECURSIVE BracketsQS_parse(_, _, _)
BracketsQS_parse(s, i, pairs) ==
  IF i < Len(s)
  THEN LET p == Brackets_Pair_parse(From(s, i))
           decoded_key == parse_bytes(p.pair.key).bytes
       IN BracketsQS_parse(s, i + p.len,
            IF decoded_key \in DOMAIN pairs
            THEN Put(pairs, decoded_key, Append(pairs[decoded_key], p.pair))
            ELSE Put(pairs, decoded_key, <<p.pair>>))
  ELSE pairs

\* BracketsQS::from_pairs: the pairs that have a sub-key, each moved one
\* level down and grouped by its decoded sub-key
RECURSIVE from_pairs(_, _, _)
from_pairs(ps, i, pairs) ==
  IF i > Len(ps) THEN pairs
  ELSE LET k == subkey(ps[i]) IN
       IF ~k.some THEN from_pairs(ps, i + 1, pairs)
       ELSE LET decoded_key == parse_bytes(k.key).bytes
                pair == [key |-> k.key, rem |-> k.rem, value |-> ps[i].value]
            IN from_pairs(ps, i + 1,
                 IF decoded_key \in DOMAIN pairs
                 THEN Put(pairs, decoded_key, Append(pairs[decoded_key], pair))
                 ELSE Put(pairs, decoded_key, <<pair>>))


\* ------------------------------------------------------------------------
\* Binding of the bracket parser's pairs: parsers/brackets.rs, mod de
\* ------------------------------------------------------------------------
\* lexical::parse::<usize>: -1 stands for an error
RECURSIVE lexical_parse(_, _, _)
lexical_parse(b, i, acc) ==
  IF Len(b) = 0 THEN -1
  ELSE IF i >= Len(b) THEN acc
  ELSE IF IsDigit(At(b, i)) THEN lexical_parse(b, i + 1, acc * 10 + (At(b, i) - 48))
  ELSE -1

\* the index to_seq_values gives to one pair
seq_index(pair) ==
  LET sk == subkey(pair) IN
  IF sk.some /\ ~is_empty(sk) THEN lexical_parse(sk.key, 0, 0) ELSE 0

RECURSIVE sort_by_key(_, _, _)
\* A sort that leaves the items in the order of the input.
sort_by_key_unsorted(items, i, acc) == items

\* Vec::sort_by_key (stable) on [index, raw] items, by insertion
sort_by_key(items, i, acc) ==
  IF i > Len(items) THEN acc
  ELSE LET it == items[i]
           pos == Cardinality({j \in 1..Len(acc) : acc[j].index <= it.index})
       IN sort_by_key(items, i + 1,
            SubSeq(acc, 1, pos) \o <<it>> \o SubSeq(acc, pos + 1, Len(acc)))

\* PairsDeserializer::to_seq_values: the raw values ordered by index
to_seq_values(pairs) ==
  IF \E i \in 1..Len(pairs) : seq_index(pairs[i]) < 0
  THEN Err("InvalidNumber")
  ELSE LET items == [i \in 1..Len(pairs) |->
                       [index |-> seq_index(pairs[i]),
                        raw |-> unwrap_or_default(pairs[i].value)]]
           sorted == sort_by_key(items, 1, <<>>)
       IN Ok([i \in 1..Len(sorted) |-> sorted[i].raw])

\* byte-wise lexicographic order of BTreeMap keys
RECURSIVE LexLess(_, _)
LexLess(a, b) ==
  IF Len(b) = 0 THEN FALSE
  ELSE IF Len(a) = 0 THEN TRUE
  ELSE IF a[1] < b[1] THEN TRUE
  ELSE IF a[1] > b[1] THEN FALSE
  ELSE LexLess(Tail(a), Tail(b))

FirstKey(keys) == CHOOSE x \in keys : \A y \in keys : x = y \/ LexLess(x, y)

RECURSIVE PairsDeserializer(_, _)
RECURSIVE BindEntry(_, _, _)
RECURSIVE visit_map(_, _, _)

\* The entries of a key-sorted table visited by a derived struct visitor or
\* a map visitor with String keys: entries are read in key order and the
\* first failure ends the visit; a struct skips unknown keys and, at the
\* end, fills a missing Option field with None and fails on any other
\* missing field (serde's missing_field, kept as Other).
visit_map(md, tbl, shape) ==
  LET keys == IF shape.k = "struct" THEN (DOMAIN tbl) \cap (DOMAIN shape.f)
              ELSE DOMAIN tbl
      elem(key) == IF shape.k = "struct" THEN shape.f[key] ELSE shape.e
      visit(res) ==
        IF \E key \in keys : ~res[key].ok
        THEN res[FirstKey({key \in keys : ~res[key].ok})]
        ELSE IF shape.k = "map"
        THEN Ok([k |-> "map", m |-> [key \in keys |-> res[key].v]])
        ELSE IF \E f \in DOMAIN shape.f : f \notin keys /\ shape.f[f].k # "option"
        THEN Err("Other")
        ELSE Ok([k |-> "struct",
                 m |-> [f \in DOMAIN shape.f |->
                          IF f \in keys THEN res[f].v ELSE [k |-> "none"]]])
  IN visit([key \in keys |->
              IF shape.k = "map" /\ ~from_utf8(key, 0)
              THEN Err("InvalidEncoding")
              ELSE BindEntry(md, tbl[key], elem(key))])

\* A variant access that lets the first pair of the key name the variant.
variant_seed_first(pairs, shape) ==
  IF pairs = <<>> THEN Err("Panic")
  ELSE LET first_pair == pairs[1]
           sk == subkey(first_pair)
           groups == from_pairs(pairs, 1, EmptyMap)
           name == IF sk.some THEN parse_bytes(sk.key).bytes
                   ELSE parse_bytes(unwrap_or_default(first_pair.value)).bytes
       IN IF sk.some /\ sk.key \notin DOMAIN groups THEN Err("Panic")
          ELSE IF name \notin DOMAIN shape.vs THEN Err("Other")
          ELSE LET payload == IF sk.some THEN groups[sk.key] ELSE <<>>
                   variant == shape.vs[name]
               IN and_then(IF variant.k = "unit"
                           THEN IF payload = <<>> THEN Ok([k |-> "unit"]) ELSE Err("Other")
                           ELSE PairsDeserializer(payload, variant),
                           LAMBDA v : Ok([k |-> "enum", variant |-> name, v |-> v]))

\* EnumAccess::variant_seed and VariantAccess of PairsDeserializer
variant_seed(pairs, shape) ==
  IF pairs = <<>> THEN Err("Panic")
  ELSE LET last_pair == pairs[Len(pairs)]
           sk == subkey(last_pair)
           groups == from_pairs(pairs, 1, EmptyMap)
           name == IF sk.some THEN parse_bytes(sk.key).bytes
                   ELSE parse_bytes(unwrap_or_default(last_pair.value)).bytes
       IN IF sk.some /\ sk.key \notin DOMAIN groups THEN Err("Panic")
          ELSE IF name \notin DOMAIN shape.vs THEN Err("Other")
          ELSE LET payload == IF sk.some THEN groups[sk.key] ELSE <<>>
                   variant == shape.vs[name]
               IN and_then(IF variant.k = "unit"
                           THEN IF payload = <<>> THEN Ok([k |-> "unit"]) ELSE Err("Other")
                           ELSE PairsDeserializer(payload, variant),
                           LAMBDA v : Ok([k |-> "enum", variant |-> name, v |-> v]))

\* Deserializer for PairsDeserializer
PairsDeserializer(pairs, shape) ==
  CASE shape.k = "seq" ->
         and_then(to_seq_values(pairs), LAMBDA vs : visit_seq(vs, 1, shape.e, <<>>))
    [] shape.k = "tuple" ->
         and_then(to_seq_values(pairs),
                  LAMBDA vs : IF Len(vs) = shape.n THEN visit_tuple(vs, shape.n, shape.e)
                              ELSE Err("InvalidLength"))
    [] shape.k = "newtype" ->
         and_then(PairsDeserializer(pairs, shape.e),
                  LAMBDA v : Ok([k |-> "newtype", v |-> v]))
    [] shape.k \in {"map", "struct"} ->
         visit_map("Brackets", from_pairs(pairs, 1, EmptyMap), shape)
    [] shape.k = "enum" -> variant_seed(pairs, shape)
    [] shape.k = "option" ->
         IF pairs = <<>>
            \/ (Len(pairs) = 1 /\ ~has_subkey(pairs[1]) /\ ~pairs[1].value.some)
         THEN Ok([k |-> "none"])
         ELSE and_then(PairsDeserializer(pairs, shape.e),
                       LAMBDA v : Ok([k |-> "some", v |-> v]))
    [] OTHER ->
         IF pairs = <<>> THEN Err("Panic")
         ELSE SliceDeserializer(unwrap_or_default(pairs[Len(pairs)].value), shape)

\* The value of one table entry handed to the deserializer of its mode
BindEntry(md, entry, shape) ==
  CASE md = "UrlEncoded" -> SliceDeserializer(unwrap_or_default(entry.value), shape)
    [] md = "Duplicate" -> ValuesDeserializer(DuplicateValueIter(entry), shape)
    [] md = "Delimiter" -> ValuesDeserializer(SeparatorValues(entry), shape)
    [] md = "Brackets" -> PairsDeserializer(entry, shape)

\* QSDeserializer over the parser's iterator: only a struct or a map can
\* be the root
QSDeserializer(md, tbl, shape) ==
  IF shape.k \in {"struct", "map"} THEN visit_map(md, tbl, shape)
  ELSE Err("Other")

\* ------------------------------------------------------------------------
\* The decoder run step by step on every short slice over DecodeBytes
\* ------------------------------------------------------------------------
\* '%', '+', '2', '5', 'A', 's'
DecodeBytes == {PCT, PLUS, 50, 53, 65, 115}

SlicesUpTo(n) == UNION {[1..k -> DecodeBytes] : k \in 0..n}

NoRef == [tag |-> "None", bytes |-> <<>>]
NoResult == [ok |-> FALSE, kind |-> "NotRun"]

\* QueryStringConfig::default(): no error handler; no request handled yet
NoHandler == [some |-> FALSE]
NoResponse == [tag |-> "None"]

CallIdle ==
  /\ parts = <<>>
  /\ mode = "None"
  /\ delimiter = Delimiter
  /\ ehandler = NoHandler
  /\ response = NoResponse
  /\ target = [k |-> "unit"]
  /\ table = <<>>
  /\ result = NoResult
  /\ pc = "idle"

DecodeIdle ==
  /\ slice = <<>>
  /\ cursor = 0
  /\ index = 0
  /\ scratch = <<>>
  /\ decoded = NoRef
  /\ dpc = "idle"

DecodeInit ==
  /\ slice \in SlicesUpTo(MaxLen)
  /\ cursor = 0
  /\ index = 0
  /\ scratch = <<>>
  /\ decoded = NoRef
  /\ dpc = "scan"
  /\ CallIdle

DecodeStep ==
  /\ dpc = "scan"
  /\ cursor < Len(slice)
  /\ LET st == parse_bytes_step(slice, [index |-> index, cursor |-> cursor, scratch |-> scratch]) IN
       /\ index' = st.index
       /\ cursor' = st.cursor
       /\ scratch' = st.scratch
  /\ UNCHANGED <<slice, decoded, dpc>>
  /\ UNCHANGED callVars

DecodeFinish ==
  /\ dpc = "scan"
  /\ cursor >= Len(slice)
  /\ decoded' = parse_bytes_finish(slice, [index |-> index, cursor |-> cursor, scratch |-> scratch])
  /\ dpc' = "done"
  /\ UNCHANGED <<slice, cursor, index, scratch>>
  /\ UNCHANGED callVars

DecodeNext == DecodeStep \/ DecodeFinish

SpecDecode == DecodeInit /\ [][DecodeNext]_vars


\* ------------------------------------------------------------------------
\* A from_bytes call: the query is parsed by the parser of its mode, then
\* the target is deserialized from the parser's table
\* ------------------------------------------------------------------------
RECURSIVE Join(_)
Join(ps) ==
  IF Len(ps) = 0 THEN <<>>
  ELSE IF Len(ps) = 1 THEN ps[1]
  ELSE ps[1] \o <<AMP>> \o Join(Tail(ps))

\* the query string of the call
Query == Join(parts)

PartsUpTo(texts, n) == UNION {[1..k -> texts] : k \in 1..n}

\* the call's record type with the single field "v" (118)
Primitive(shape) == [k |-> "struct", f |-> (<<118>> :> shape)]

CallInit(texts, modes, targets) ==
  /\ parts \in PartsUpTo(texts, MaxPairs)
  /\ mode \in modes
  /\ delimiter = Delimiter
  /\ ehandler = NoHandler
  /\ response = NoResponse
  /\ target \in targets
  /\ table = <<>>
  /\ result = NoResult
  /\ pc = "start"
  /\ DecodeIdle

UrlEncodedParse ==
  /\ pc = "start"
  /\ mode = "UrlEncoded"
  /\ table' = UrlEncodedQS_parse(Query, 0, EmptyMap)
  /\ pc' = "parsed"
  /\ UNCHANGED <<parts, mode, delimiter, ehandler, response, target, result>>
  /\ UNCHANGED decodeVars

DuplicateParse ==
  /\ pc = "start"
  /\ mode = "Duplicate"
  /\ table' = DuplicateQS_parse(Query, 0, EmptyMap)
  /\ pc' = "parsed"
  /\ UNCHANGED <<parts, mode, delimiter, ehandler, response, target, result>>
  /\ UNCHANGED decodeVars

DelimiterParse ==
  /\ pc = "start"
  /\ mode = "Delimiter"
  /\ table' = DelimiterQS_parse(Query, 0, EmptyMap)
  /\ pc' = "parsed"
  /\ UNCHANGED <<parts, mode, delimiter, ehandler, response, target, result>>
  /\ UNCHANGED decodeVars

BracketsParse ==
  /\ pc = "start"
  /\ mode = "Brackets"
  /\ table' = BracketsQS_parse(Query, 0, EmptyMap)
  /\ pc' = "parsed"
  /\ UNCHANGED <<parts, mode, delimiter, ehandler, response, target, result>>
  /\ UNCHANGED decodeVars

Deserialize ==
  /\ pc = "parsed"
  /\ result' = QSDeserializer(mode, table, target)
  /\ pc' = "done"
  /\ UNCHANGED <<parts, mode, delimiter, ehandler, response, target, table>>
  /\ UNCHANGED decodeVars

\* Target types of the calls
I16 == [k |-> "int", lo |-> -32768, hi |-> 32767]
String == [k |-> "string"]

\* "v=1", "v=2", "v=-3", "%76=2", "v", "w=1", "v=1|2"
ScalarTexts ==
  { <<118, 61, 49>>, <<118, 61, 50>>, <<118, 61, 45, 51>>,
    <<37, 55, 54, 61, 50>>, <<118>>, <<119, 61, 49>>,
    <<118, 61, 49, 124, 50>> }

ScalarInit ==
  CallInit(ScalarTexts, {"UrlEncoded", "Duplicate", "Delimiter", "Brackets"},
           {Primitive(I16), Primitive(String)})

ScalarNext ==
  \/ UrlEncodedParse
  \/ DuplicateParse
  \/ DelimiterParse
  \/ BracketsParse
  \/ Deserialize

SpecScalar == ScalarInit /\ [][ScalarNext]_vars


Vec(e) == [k |-> "seq", e |-> e]
Tuple(n, e) == [k |-> "tuple", n |-> n, e |-> e]
HashMap(e) == [k |-> "map", e |-> e]

\* "v=1", "v=2", "v=3", "%76=2", "w=1", "v", "v[1]=5", "v[0]=4", "v[]=6",
\* "v=1|2"
SeqTexts ==
  { <<118, 61, 49>>, <<118, 61, 50>>, <<118, 61, 51>>,
    <<37, 55, 54, 61, 50>>, <<119, 61, 49>>, <<118>>,
    <<118, 91, 49, 93, 61, 53>>, <<118, 91, 48, 93, 61, 52>>,
    <<118, 91, 93, 61, 54>>, <<118, 61, 49, 124, 50>> }

SeqInit ==
  CallInit(SeqTexts, {"Duplicate", "Delimiter", "Brackets"},
           {Primitive(Vec(I16)), Primitive(Tuple(2, I16))})

SeqNext ==
  \/ DuplicateParse
  \/ DelimiterParse
  \/ BracketsParse
  \/ Deserialize

SpecSeq == SeqInit /\ [][SeqNext]_vars

\* enum ValueEnum { A(i16, i16), B(i16), C {} } with variants "A", "B", "C"
ValueEnum ==
  [k |-> "enum",
   vs |-> (<<65>> :> [k |-> "tuple", n |-> 2, e |-> I16])
       @@ (<<66>> :> [k |-> "newtype", e |-> I16])
       @@ (<<67>> :> [k |-> "struct", f |-> EmptyMap])]

\* "v=1", "v=2", "v=A", "v=B", "v=C", "v=%FF", "v", "w=1", "v[w]=1"
LWWTexts ==
  { <<118, 61, 49>>, <<118, 61, 50>>, <<118, 61, 65>>, <<118, 61, 66>>,
    <<118, 61, 67>>, <<118, 61, 37, 70, 70>>, <<118>>, <<119, 61, 49>>,
    <<118, 91, 119, 93, 61, 49>> }

LWWInit ==
  CallInit(LWWTexts, {"UrlEncoded"},
           {Primitive(Vec(I16)), Primitive(Tuple(2, I16)), Primitive(Tuple(3, I16)),
            Primitive(HashMap(I16)), Primitive(Primitive(I16)), Primitive(ValueEnum)})

LWWNext ==
  \/ UrlEncodedParse
  \/ Deserialize

SpecLWW == LWWInit /\ [][LWWNext]_vars

\* ------------------------------------------------------------------------
\* Bracket mode into nested records and maps
\* ------------------------------------------------------------------------
Option(e) == [k |-> "option", e |-> e]

\* struct Child { b: i16, c: Option<i16> }
Child == [k |-> "struct", f |-> (<<98>> :> I16 @@ <<99>> :> Option(I16))]

\* a record with the fields "a" (97) and "b" (98)
Record(a, b) == [k |-> "struct", f |-> (<<97>> :> a @@ <<98>> :> b)]

\* "a[b]=1", "a[c]=2", "a=3", "a[b][c]=4", "b=5", "a%5Bb]=6", "a[b]x=7"
RecordTexts ==
  { <<97, 91, 98, 93, 61, 49>>, <<97, 91, 99, 93, 61, 50>>, <<97, 61, 51>>,
    <<97, 91, 98, 93, 91, 99, 93, 61, 52>>, <<98, 61, 53>>,
    <<97, 37, 53, 66, 98, 93, 61, 54>>, <<97, 91, 98, 93, 120, 61, 55>> }

RecordInit ==
  CallInit(RecordTexts, {"Brackets"},
           {Record(I16, Option(I16)), Record(Child, Option(I16)),
            Record(HashMap(I16), Option(I16)), Record(HashMap(Child), Option(I16))})

RecordNext ==
  \/ BracketsParse
  \/ Deserialize

SpecRecord == RecordInit /\ [][RecordNext]_vars

\* ------------------------------------------------------------------------
\* Bracket mode into an enum
\* ------------------------------------------------------------------------
\* enum Enum { U, N(i16), T(i16, i16), S { b: i16, l: i16 } }
Enum ==
  [k |-> "enum",
   vs |-> (<<85>> :> [k |-> "unit"]
           @@ <<78>> :> [k |-> "newtype", e |-> I16]
           @@ <<84>> :> Tuple(2, I16)
           @@ <<83>> :> [k |-> "struct", f |-> (<<98>> :> I16 @@ <<108>> :> I16)])]

\* "v[S][b]=8", "v[N]=1", "v[S][l]=5", "v=U", "v[T][1]=4", "v[T][0]=3",
\* "v[N]=2", "v[U]=1", "v[U]=", "v[U]"
EnumTexts ==
  { <<118, 91, 83, 93, 91, 98, 93, 61, 56>>, <<118, 91, 78, 93, 61, 49>>,
    <<118, 91, 83, 93, 91, 108, 93, 61, 53>>, <<118, 61, 85>>,
    <<118, 91, 84, 93, 91, 49, 93, 61, 52>>, <<118, 91, 84, 93, 91, 48, 93, 61, 51>>,
    <<118, 91, 78, 93, 61, 50>>, <<118, 91, 85, 93, 61, 49>>,
    <<118, 91, 85, 93, 61>>, <<118, 91, 85, 93>> }

EnumInit == CallInit(EnumTexts, {"Brackets"}, {Primitive(Enum), Primitive(Option(Enum))})

EnumNext ==
  \/ BracketsParse
  \/ Deserialize

SpecEnum == EnumInit /\ [][EnumNext]_vars

\* ------------------------------------------------------------------------
\* Bracket mode into a sequence whose elements carry sub-keys
\* ------------------------------------------------------------------------
\* "v[3]=7", "v[2]=3", "v[1]=1", "v[10]=9", "v[10]=8", "v[]=6", "v[g]=5",
\* "v[0]=4"
IndexTexts ==
  { <<118, 91, 51, 93, 61, 55>>, <<118, 91, 50, 93, 61, 51>>, <<118, 91, 49, 93, 61, 49>>,
    <<118, 91, 49, 48, 93, 61, 57>>, <<118, 91, 49, 48, 93, 61, 56>>, <<118, 91, 93, 61, 54>>,
    <<118, 91, 103, 93, 61, 53>>, <<118, 91, 48, 93, 61, 52>> }

IndexInit ==
  CallInit(IndexTexts, {"Brackets"}, {Primitive(Vec(I16)), Primitive(Tuple(3, I16))})

IndexNext ==
  \/ BracketsParse
  \/ Deserialize

SpecIndex == IndexInit /\ [][IndexNext]_vars

\* ------------------------------------------------------------------------
\* Bracket mode over keys whose brackets are percent-encoded or unclosed
\* ------------------------------------------------------------------------
\* "a[b]=1", "a[b=1", "a%5Bb%5D%5Bc%5d=4", "a%5bb]=2", "a[c%5d=2",
\* "a[b][c]=4",
\* "a[b][c=4", "a%5Bc=3", "b=5", "a[b"
KeyTexts ==
  { <<97, 91, 98, 93, 61, 49>>, <<97, 91, 98, 61, 49>>,
    <<97, 37, 53, 66, 98, 37, 53, 68, 37, 53, 66, 99, 37, 53, 100, 61, 52>>, <<97, 37, 53, 98, 98, 93, 61, 50>>,
    <<97, 91, 99, 37, 53, 100, 61, 50>>, <<97, 91, 98, 93, 91, 99, 93, 61, 52>>,
    <<97, 91, 98, 93, 91, 99, 61, 52>>, <<97, 37, 53, 66, 99, 61, 51>>,
    <<98, 61, 53>>, <<97, 91, 98>> }

KeyInit ==
  CallInit(KeyTexts, {"Brackets"},
           {Record(HashMap(I16), Option(I16)), Record(HashMap(HashMap(I16)), Option(I16)),
            Record(Option(HashMap(String)), Option(I16))})

KeyNext ==
  \/ BracketsParse
  \/ Deserialize

SpecKey == KeyInit /\ [][KeyNext]_vars

\* ------------------------------------------------------------------------
\* Delimiter mode with the delimiter chosen by the caller
\* ------------------------------------------------------------------------
\* '|' and ','
Delimiters == {Delimiter, COMMA}

\* "v=1|3|7", "v=1,3,7", "v=b|c||", "v=", "v=%31|3", "v=1", "v=|", "v=a%7Cb"
DelimiterTexts ==
  { <<118, 61, 49, 124, 51, 124, 55>>, <<118, 61, 49, 44, 51, 44, 55>>, <<118, 61, 98, 124, 99, 124, 124>>,
    <<118, 61>>, <<118, 61, 37, 51, 49, 124, 51>>, <<118, 61, 49>>,
    <<118, 61, 124>>, <<118, 61, 97, 37, 55, 67, 98>> }

DelimiterInit ==
  /\ parts \in PartsUpTo(DelimiterTexts, MaxPairs)
  /\ mode = "Delimiter"
  /\ delimiter \in Delimiters
  /\ ehandler = NoHandler
  /\ response = NoResponse
  /\ target \in {Primitive(Vec(String)), Primitive(Vec(I16)),
                  Primitive(Tuple(2, String)), Primitive(Tuple(3, I16))}
  /\ table = <<>>
  /\ result = NoResult
  /\ pc = "start"
  /\ DecodeIdle

DelimiterNext ==
  \/ DelimiterParse
  \/ Deserialize

SpecDelimiter == DelimiterInit /\ [][DelimiterNext]_vars

\* ------------------------------------------------------------------------
\* The extractors of serde-querystring-axum and serde-querystring-actix
\* ------------------------------------------------------------------------
\* serde_querystring::from_str(query, mode) as the extractors call it
serde_querystring_from_str(query, md, shape) ==
  QSDeserializer(md,
                 CASE md = "UrlEncoded" -> UrlEncodedQS_parse(query, 0, EmptyMap)
                   [] md = "Duplicate" -> DuplicateQS_parse(query, 0, EmptyMap)
                   [] md = "Delimiter" -> DelimiterQS_parse(query, 0, EmptyMap)
                   [] md = "Brackets" -> BracketsQS_parse(query, 0, EmptyMap),
                 shape)

\* A default rejection with the status of the extractor's documentation.
QueryStringError_unprocessable ==
  [status |-> 422, body |-> "Failed to deserialize query string"]

\* QueryStringError::default() of the axum extractor
QueryStringError_default ==
  [status |-> 400, body |-> "Failed to deserialize query string"]

\* ResponseError for QueryStringPayloadError of the actix extractor: the
\* status of the error the decode error is wrapped in
QueryStringPayloadError_Deserialize(e) ==
  [status |-> 400, error |-> e]

\* the error handlers of the tests and of the documentation: a fixed
\* (502, "Something went wrong"), a fixed 422 with an empty body, and
\* (400, err.to_string())
Handlers == {"BadGateway", "Unprocessable", "Echo"}

\* the call of a configured handler with the decode error
ehandler_call(h, e) ==
  CASE h = "BadGateway" -> [status |-> 502, body |-> "Something went wrong"]
    [] h = "Unprocessable" -> [status |-> 422, body |-> ""]
    [] h = "Echo" -> [status |-> 400, body |-> e.kind]

\* "v=1", "v=string", "w=1", "v=1|2"
RequestTexts ==
  { <<118, 61, 49>>, <<118, 61, 115, 116, 114, 105, 110, 103>>,
    <<119, 61, 49>>, <<118, 61, 49, 124, 50>> }

\* a request with its query and the QueryStringConfig found for it
ExtractorInit ==
  /\ parts \in PartsUpTo(RequestTexts, MaxPairs)
  /\ mode \in {"UrlEncoded", "Duplicate", "Delimiter", "Brackets"}
  /\ delimiter = Delimiter
  /\ ehandler \in {NoHandler} \cup {[some |-> TRUE, h |-> h] : h \in Handlers}
  /\ response = NoResponse
  /\ target \in {Primitive(I16), Primitive(Vec(I16))}
  /\ table = <<>>
  /\ result = NoResult
  /\ pc = "request"
  /\ DecodeIdle

\* FromRequestParts for QueryString<T> (axum)
from_request_parts ==
  /\ pc = "request"
  /\ \E value \in {serde_querystring_from_str(Query, mode, target)} :
       /\ result' = value
       /\ response' =
            IF value.ok THEN [tag |-> "Ok", value |-> value.v]
            ELSE IF ehandler.some
            THEN [tag |-> "Err", rejection |-> ehandler_call(ehandler.h, value)]
            ELSE [tag |-> "Err", rejection |-> QueryStringError_default]
  /\ pc' = "axum"
  /\ UNCHANGED <<parts, mode, delimiter, ehandler, target, table>>
  /\ UNCHANGED decodeVars

\* FromRequest for QueryString<T> (actix)
from_request ==
  /\ pc = "request"
  /\ \E value \in {serde_querystring_from_str(Query, mode, target)} :
       /\ result' = value
       /\ response' =
            IF value.ok THEN [tag |-> "Ok", value |-> value.v]
            ELSE IF ehandler.some
            THEN [tag |-> "Err", rejection |-> ehandler_call(ehandler.h, value)]
            ELSE [tag |-> "Err", rejection |-> QueryStringPayloadError_Deserialize(value)]
  /\ pc' = "actix"
  /\ UNCHANGED <<parts, mode, delimiter, ehandler, target, table>>
  /\ UNCHANGED decodeVars

ExtractorNext ==
  \/ from_request_parts
  \/ from_request

SpecExtractor == ExtractorInit /\ [][ExtractorNext]_vars

\* ------------------------------------------------------------------------
\* The parse loop of each parser, one iteration at a time: slice is the
\* input, index the scan index and table the map of pairs built so far
\* ------------------------------------------------------------------------
\* one iteration of the loop of UrlEncodedQS::parse
UrlEncodedQS_parse_body(s, i, pairs) ==
  LET pair == Pair_parse(From(s, i))
      decoded_key == parse_bytes(pair.key).bytes
  IN [index |-> i + skip_len(pair), pairs |-> Put(pairs, decoded_key, pair)]

\* one iteration of the loop of DuplicateQS::parse
DuplicateQS_parse_body(s, i, pairs) ==
  LET pair == Pair_parse(From(s, i))
      decoded_key == parse_bytes(pair.key).bytes
  IN [index |-> i + skip_len(pair),
      pairs |-> IF decoded_key \in DOMAIN pairs
                THEN Put(pairs, decoded_key, Append(pairs[decoded_key], pair))
                ELSE Put(pairs, decoded_key, <<pair>>)]

\* one iteration of the loop of DelimiterQS::parse
DelimiterQS_parse_body(s, i, pairs) ==
  LET pair == Pair_parse(From(s, i))
      decoded_key == parse_bytes(pair.key).bytes
  IN [index |-> i + skip_len(pair), pairs |-> Put(pairs, decoded_key, pair)]

\* one iteration of the loop of BracketsQS::parse
BracketsQS_parse_body(s, i, pairs) ==
  LET p == Brackets_Pair_parse(From(s, i))
      decoded_key == parse_bytes(p.pair.key).bytes
  IN [index |-> i + p.len,
      pairs |-> IF decoded_key \in DOMAIN pairs
                THEN Put(pairs, decoded_key, Append(pairs[decoded_key], p.pair))
                ELSE Put(pairs, decoded_key, <<p.pair>>)]

\* "", "=", "a", "a=b", "a[", "a[b]=1", "a%5B", "a%5", "%", "a[b]c="
ParseTexts ==
  { <<>>, <<61>>, <<97>>, <<97, 61, 98>>,
    <<97, 91>>, <<97, 91, 98, 93, 61, 49>>, <<97, 37, 53, 66>>, <<97, 37, 53>>,
    <<37>>, <<97, 91, 98, 93, 99, 61>> }

ParseInit ==
  /\ parts \in PartsUpTo(ParseTexts, MaxPairs)
  /\ mode \in {"UrlEncoded", "Duplicate", "Delimiter", "Brackets"}
  /\ delimiter = Delimiter
  /\ ehandler = NoHandler
  /\ response = NoResponse
  /\ target = [k |-> "unit"]
  /\ slice = Join(parts)
  /\ index = 0
  /\ table = EmptyMap
  /\ result = NoResult
  /\ pc = "parsing"
  /\ cursor = 0
  /\ scratch = <<>>
  /\ decoded = NoRef
  /\ dpc = "idle"

UrlEncodedIter ==
  /\ pc = "parsing"
  /\ mode = "UrlEncoded"
  /\ index < Len(slice)
  /\ \E out \in {UrlEncodedQS_parse_body(slice, index, table)} :
       /\ index' = out.index
       /\ table' = out.pairs
  /\ UNCHANGED <<slice, cursor, scratch, decoded, dpc>>
  /\ UNCHANGED <<parts, mode, delimiter, ehandler, response, target, result, pc>>

DuplicateIter ==
  /\ pc = "parsing"
  /\ mode = "Duplicate"
  /\ index < Len(slice)
  /\ \E out \in {DuplicateQS_parse_body(slice, index, table)} :
       /\ index' = out.index
       /\ table' = out.pairs
  /\ UNCHANGED <<slice, cursor, scratch, decoded, dpc>>
  /\ UNCHANGED <<parts, mode, delimiter, ehandler, response, target, result, pc>>

DelimiterIter ==
  /\ pc = "parsing"
  /\ mode = "Delimiter"
  /\ index < Len(slice)
  /\ \E out \in {DelimiterQS_parse_body(slice, index, table)} :
       /\ index' = out.index
       /\ table' = out.pairs
  /\ UNCHANGED <<slice, cursor, scratch, decoded, dpc>>
  /\ UNCHANGED <<parts, mode, delimiter, ehandler, response, target, result, pc>>

BracketsIter ==
  /\ pc = "parsing"
  /\ mode = "Brackets"
  /\ index < Len(slice)
  /\ \E out \in {BracketsQS_parse_body(slice, index, table)} :
       /\ index' = out.index
       /\ table' = out.pairs
  /\ UNCHANGED <<slice, cursor, scratch, decoded, dpc>>
  /\ UNCHANGED <<parts, mode, delimiter, ehandler, response, target, result, pc>>

\* the loop condition fails: parse returns its table
ParseReturn ==
  /\ pc = "parsing"
  /\ index >= Len(slice)
  /\ pc' = "parsed"
  /\ UNCHANGED decodeVars
  /\ UNCHANGED <<parts, mode, delimiter, ehandler, response, target, table, result>>

ParseNext ==
  \/ UrlEncodedIter
  \/ DuplicateIter
  \/ DelimiterIter
  \/ BracketsIter
  \/ ParseReturn

SpecParse == ParseInit /\ [][ParseNext]_vars

\* ------------------------------------------------------------------------
\* An enum or an integer named by a bare value or by a sub-key, under each
\* parse mode
\* ------------------------------------------------------------------------
\* "v=N", "v[%4E]=1", "v[N]=1", "v=U", "v=T", "v[T][0]=3", "v[%55]", "v=1"
VariantTexts ==
  { <<118, 61, 78>>, <<118, 91, 37, 52, 69, 93, 61, 49>>, <<118, 91, 78, 93, 61, 49>>,
    <<118, 61, 85>>, <<118, 61, 84>>, <<118, 91, 84, 93, 91, 48, 93, 61, 51>>,
    <<118, 91, 37, 53, 53, 93>>, <<118, 61, 49>> }

VariantInit ==
  CallInit(VariantTexts, {"UrlEncoded", "Duplicate", "Delimiter", "Brackets"},
           {Primitive(Enum), Primitive(Option(Enum)), Primitive(I16)})

VariantNext ==
  \/ UrlEncodedParse
  \/ DuplicateParse
  \/ DelimiterParse
  \/ BracketsParse
  \/ Deserialize

SpecVariant == VariantInit /\ [][VariantNext]_vars

\* ------------------------------------------------------------------------
\* One pair bound to an integer of each width under each parse mode
\* ------------------------------------------------------------------------
U8 == [k |-> "int", lo |-> 0, hi |-> 255]
I8 == [k |-> "int", lo |-> -128, hi |-> 127]
U16 == [k |-> "int", lo |-> 0, hi |-> 65535]

\* '-', '+', '2', 'a'
IntBytes == {45, 43, 50, 97}

\* the boundary values of deserialize_integer_valid and
\* deserialize_integer_overflow, signs without digits, digits followed by
\* other bytes, and every short text over IntBytes
IntLiterals ==
  { <<>>, <<48>>, <<50, 53, 53>>, <<50, 53, 54>>,
    <<45, 49>>, <<45, 49, 50, 56>>, <<45, 49, 50, 57>>, <<49, 50, 55>>,
    <<49, 50, 56>>, <<45, 50, 48, 48>>, <<54, 53, 53, 51, 53>>, <<54, 53, 53, 51, 54>>,
    <<51, 50, 55, 54, 55>>, <<51, 50, 55, 54, 56>>, <<45, 51, 50, 55, 54, 56>>, <<45, 51, 50, 55, 54, 57>>,
    <<43, 49>>, <<45>>, <<43>>, <<45, 48>>,
    <<49, 97>>, <<49, 45, 50>>, <<48, 48, 55>>, <<37, 51, 49>>,
    <<45, 45, 49>> }
  \cup UNION {[1..n -> IntBytes] : n \in 0..MaxLen}

IntInit ==
  /\ parts \in {<<(<<118, EQ>> \o lit)>> : lit \in IntLiterals}
  /\ mode \in {"UrlEncoded", "Duplicate", "Delimiter", "Brackets"}
  /\ delimiter = Delimiter
  /\ ehandler = NoHandler
  /\ response = NoResponse
  /\ target \in {Primitive(U8), Primitive(I8), Primitive(U16), Primitive(I16)}
  /\ table = <<>>
  /\ result = NoResult
  /\ pc = "start"
  /\ DecodeIdle

IntNext ==
  \/ UrlEncodedParse
  \/ DuplicateParse
  \/ DelimiterParse
  \/ BracketsParse
  \/ Deserialize

SpecInt == IntInit /\ [][IntNext]_vars

\* ------------------------------------------------------------------------
\* One pair bound to a bool or to an optional text under each parse mode
\* ------------------------------------------------------------------------
Bool == [k |-> "bool"]

\* "v=", "v", "v=1", "v=on", "v=true", "v=0", "v=off", "v=false", "v=bla",
\* "v=onoff", "v=of", "v=0off", "v=True", "v=ON", "v=on%25", "v=%31", "v=a"
ValueTexts ==
  { <<118, 61>>, <<118>>, <<118, 61, 49>>,
    <<118, 61, 111, 110>>, <<118, 61, 116, 114, 117, 101>>, <<118, 61, 48>>,
    <<118, 61, 111, 102, 102>>, <<118, 61, 102, 97, 108, 115, 101>>, <<118, 61, 98, 108, 97>>,
    <<118, 61, 111, 110, 111, 102, 102>>, <<118, 61, 111, 102>>, <<118, 61, 48, 111, 102, 102>>,
    <<118, 61, 84, 114, 117, 101>>, <<118, 61, 79, 78>>, <<118, 61, 111, 110, 37, 50, 53>>,
    <<118, 61, 37, 51, 49>>, <<118, 61, 97>> }

ValueInit ==
  /\ parts \in {<<text>> : text \in ValueTexts}
  /\ mode \in {"UrlEncoded", "Duplicate", "Delimiter", "Brackets"}
  /\ delimiter = Delimiter
  /\ ehandler = NoHandler
  /\ response = NoResponse
  /\ target \in {Primitive(Bool), Primitive(Option(String))}
  /\ table = <<>>
  /\ result = NoResult
  /\ pc = "start"
  /\ DecodeIdle

ValueNext ==
  \/ UrlEncodedParse
  \/ DuplicateParse
  \/ DelimiterParse
  \/ BracketsParse
  \/ Deserialize

SpecValue == ValueInit /\ [][ValueNext]_vars

\* ------------------------------------------------------------------------
\* One pair whose value is written with and without escapes, bound to a
\* bool or to an integer under each parse mode
\* ------------------------------------------------------------------------
\* "v=", "v=1", "v=%31", "v=on", "v=%6Fn", "v=o%6E", "v=0", "v=%30",
\* "v=off", "v=true", "v=tru%65", "v=false", "v=-1", "v=%2D1", "v=12",
\* "v=1%32", "v=a", "v=%61", "v=+1", "v=%2B1", "v=255", "v=25%35", "v=%",
\* "v=%3"
EscapedTexts ==
  { <<118, 61>>, <<118, 61, 49>>, <<118, 61, 37, 51, 49>>, <<118, 61, 111, 110>>,
    <<118, 61, 37, 54, 70, 110>>, <<118, 61, 111, 37, 54, 69>>, <<118, 61, 48>>, <<118, 61, 37, 51, 48>>,
    <<118, 61, 111, 102, 102>>, <<118, 61, 116, 114, 117, 101>>, <<118, 61, 116, 114, 117, 37, 54, 53>>, <<118, 61, 102, 97, 108, 115, 101>>,
    <<118, 61, 45, 49>>, <<118, 61, 37, 50, 68, 49>>, <<118, 61, 49, 50>>, <<118, 61, 49, 37, 51, 50>>,
    <<118, 61, 97>>, <<118, 61, 37, 54, 49>>, <<118, 61, 43, 49>>, <<118, 61, 37, 50, 66, 49>>,
    <<118, 61, 50, 53, 53>>, <<118, 61, 50, 53, 37, 51, 53>>, <<118, 61, 37>>, <<118, 61, 37, 51>> }

EscapedInit ==
  /\ parts \in {<<text>> : text \in EscapedTexts}
  /\ mode \in {"UrlEncoded", "Duplicate", "Delimiter", "Brackets"}
  /\ delimiter = Delimiter
  /\ ehandler = NoHandler
  /\ response = NoResponse
  /\ target \in {Primitive(Bool), Primitive(U8), Primitive(I8), Primitive(I16)}
  /\ table = <<>>
  /\ result = NoResult
  /\ pc = "start"
  /\ DecodeIdle

EscapedNext ==
  \/ UrlEncodedParse
  \/ DuplicateParse
  \/ DelimiterParse
  \/ BracketsParse
  \/ Deserialize

SpecEscaped == EscapedInit /\ [][EscapedNext]_vars

\* ------------------------------------------------------------------------
\* Pairs whose keys are written with and without escapes
\* ------------------------------------------------------------------------
\* "v=1", "%76=2", "v[0]=3", "v%5B0%5D=4", "v[%30]=5", "%76[1]=6", "w=7"
SameKeyTexts ==
  { <<118, 61, 49>>, <<37, 55, 54, 61, 50>>, <<118, 91, 48, 93, 61, 51>>, <<118, 37, 53, 66, 48, 37, 53, 68, 61, 52>>,
    <<118, 91, 37, 51, 48, 93, 61, 53>>, <<37, 55, 54, 91, 49, 93, 61, 54>>, <<119, 61, 55>> }

SameKeyInit ==
  CallInit(SameKeyTexts, {"UrlEncoded", "Duplicate", "Delimiter", "Brackets"},
           {Primitive(I16), Primitive(Vec(I16))})

SameKeyNext ==
  \/ UrlEncodedParse
  \/ DuplicateParse
  \/ DelimiterParse
  \/ BracketsParse
  \/ Deserialize

SpecSameKey == SameKeyInit /\ [][SameKeyNext]_vars

\* ------------------------------------------------------------------------
\* Queries with empty segments between their separators
\* ------------------------------------------------------------------------
\* "v=1", "v=2", "w=3" and the empty segment, which joins to an extra '&'
AmpersandTexts ==
  { <<118, 61, 49>>, <<118, 61, 50>>, <<119, 61, 51>>, <<>> }

AmpersandInit ==
  CallInit(AmpersandTexts, {"UrlEncoded", "Duplicate", "Delimiter", "Brackets"},
           {Primitive(String), Primitive(Vec(I16)), HashMap(String)})

AmpersandNext ==
  \/ UrlEncodedParse
  \/ DuplicateParse
  \/ DelimiterParse
  \/ BracketsParse
  \/ Deserialize

SpecAmpersand == AmpersandInit /\ [][AmpersandNext]_vars

\* ------------------------------------------------------------------------
\* The lookups of the bracket parser: BracketsQS::values and
\* BracketsQS::sub_values
\* ------------------------------------------------------------------------
\* BracketsQS::values: None for a missing key, else the decoded values of
\* the key's pairs that have no sub-key.
BracketsQS_values(pairs, key) ==
  IF key \notin DOMAIN pairs THEN [some |-> FALSE, values |-> <<>>]
  ELSE LET direct == SelectSeq(pairs[key], LAMBDA p : ~has_subkey(p))
       IN [some |-> TRUE,
           values |-> [i \in 1..Len(direct) |->
                         IF direct[i].value.some
                         THEN Some(parse_bytes(direct[i].value.bytes).bytes)
                         ELSE None]]

\* BracketsQS::sub_values: None for a missing key, else the table of the
\* key's pairs one level down.
BracketsQS_sub_values(pairs, key) ==
  IF key \notin DOMAIN pairs THEN [some |-> FALSE, pairs |-> EmptyMap]
  ELSE [some |-> TRUE, pairs |-> from_pairs(pairs[key], 1, EmptyMap)]

\* The keys of parse_invalid and of the tests beside it:
\* "f[b]x=1", "f[b][x=2", "f[c]x]=3", "f[x=4", "f=5", "f[b]=6", "f[=7", "f%5Bx=8"
LookupTexts ==
  { <<102, 91, 98, 93, 120, 61, 49>>, <<102, 91, 98, 93, 91, 120, 61, 50>>, <<102, 91, 99, 93, 120, 93, 61, 51>>, <<102, 91, 120, 61, 52>>,
    <<102, 61, 53>>, <<102, 91, 98, 93, 61, 54>>, <<102, 91, 61, 55>>, <<102, 37, 53, 66, 120, 61, 56>> }

LookupInit == CallInit(LookupTexts, {"Brackets"}, {[k |-> "unit"]})

\* values(key) and sub_values(key) of a key of the parsed table.
Lookup ==
  /\ pc = "parsed"
  /\ \E key \in DOMAIN table :
       result' = Ok([key |-> key,
                     values |-> BracketsQS_values(table, key),
                     sub_values |-> BracketsQS_sub_values(table, key)])
  /\ pc' = "looked"
  /\ UNCHANGED <<parts, mode, delimiter, ehandler, response, target, table>>
  /\ UNCHANGED decodeVars

LookupNext == BracketsParse \/ Lookup

SpecLookup == LookupInit /\ [][LookupNext]_vars

\* ------------------------------------------------------------------------
\* The depth-limited engine: de/mod.rs with de/parser.rs and the Stash and
\* PairMap of de/stash.  A key's bracket groups are peeled one level at a
\* time; every level carries the remaining depth
\* ------------------------------------------------------------------------
\* Deserializer::new: the depth a call starts with
Deserializer_new == 64

\* the index of the first byte at or after i that is one of stops, or the
\* length of the slice
FindByte(s, i, stops) ==
  LET hits == {j \in i..(Len(s) - 1) : At(s, j) \in stops} IN
  IF hits = {} THEN Len(s) ELSE CHOOSE j \in hits : \A h \in hits : j <= h

NoValues == [some |-> FALSE, pairs |-> <<>>]

Stash_new(depth) == [pairs |-> <<>>, values |-> NoValues, remaining_depth |-> depth]

\* Stash::add: the pair goes to the front of its parent's group; a new group
\* goes to the front of the groups
Stash_add(st, parent, key, value) ==
  LET pair == [key |-> key, value |-> value]
      hits == {i \in 1..Len(st.pairs) : st.pairs[i].parent = parent}
  IN IF hits # {}
     THEN LET i == CHOOSE j \in hits : \A h \in hits : j <= h
          IN [st EXCEPT !.pairs[i].pairs = <<pair>> \o @]
     ELSE [st EXCEPT !.pairs = <<[parent |-> parent, pairs |-> <<pair>>]>> \o @]

\* Stash::next_key: the group at the back becomes the current values
Stash_next_key(st) ==
  IF st.remaining_depth = 0 THEN Err("MaximumDepthReached")
  ELSE IF st.pairs # <<>>
  THEN Ok([some |-> TRUE, key |-> st.pairs[Len(st.pairs)].parent,
           stash |-> [st EXCEPT !.pairs = SubSeq(@, 1, Len(@) - 1),
                                !.values = [some |-> TRUE,
                                            pairs |-> st.pairs[Len(st.pairs)].pairs]]])
  ELSE Ok([some |-> FALSE, key |-> <<>>, stash |-> st])

PairMap_new(depth, pairs) == [pairs |-> pairs, value |-> None, stash |-> Stash_new(depth)]

\* A descent that hands the whole remaining depth to the next level.
Stash_next_value_map_keep(st) ==
  IF ~st.values.some THEN Err("EofReached")
  ELSE Ok([map |-> PairMap_new(st.remaining_depth, st.values.pairs),
           stash |-> [st EXCEPT !.values = NoValues]])

\* Stash::next_value_map: the current values as the map of the next level,
\* with one unit of depth less
Stash_next_value_map(st) ==
  IF ~st.values.some THEN Err("EofReached")
  ELSE Ok([map |-> PairMap_new(st.remaining_depth - 1, st.values.pairs),
           stash |-> [st EXCEPT !.values = NoValues]])

\* Parser::parse_subpair: the rest of a bracketed key up to '=' and its value
\* go to the stash under the root key
Parser_parse_subpair(s, i, key, stash) ==
  IF key = <<>> THEN Err("InvalidMapKey")
  ELSE LET key_index == FindByte(s, i, {EQ}) IN
       IF key_index = Len(s) THEN Err("InvalidMapKey")
       ELSE LET value_index == FindByte(s, key_index + 1, {SEMI, AMP}) IN
            Ok([index |-> value_index + 1,
                stash |-> Stash_add(stash, key, Sub(s, i, key_index),
                                    Sub(s, key_index + 1, value_index))])

\* Parser::parse_key: the next key without brackets; bracketed pairs met on
\* the way are stashed
RECURSIVE Parser_parse_key(_, _, _, _)
Parser_parse_key(s, i, key_index, stash) ==
  IF key_index >= Len(s) THEN Ok([some |-> FALSE, key |-> <<>>, index |-> i, stash |-> stash])
  ELSE IF At(s, key_index) \in {EQ, AMP, SEMI}
  THEN IF Sub(s, i, key_index) = <<>> THEN Err("InvalidMapKey")
       ELSE Ok([some |-> TRUE, key |-> Sub(s, i, key_index),
                index |-> key_index + 1, stash |-> stash])
  ELSE IF At(s, key_index) = LBR
  THEN and_then(Parser_parse_subpair(s, key_index + 1, Sub(s, i, key_index), stash),
                LAMBDA r : Parser_parse_key(s, r.index, r.index, r.stash))
  ELSE IF At(s, key_index) = PCT
  THEN IF Len(s) > key_index + 2
       THEN IF parse_char(At(s, key_index + 1), At(s, key_index + 2)) = LBR
            THEN and_then(Parser_parse_subpair(s, key_index + 3, Sub(s, i, key_index), stash),
                          LAMBDA r : Parser_parse_key(s, r.index, r.index, r.stash))
            ELSE Parser_parse_key(s, i, key_index + 2, stash)
       ELSE Parser_parse_key(s, i, key_index + 1, stash)
  ELSE Parser_parse_key(s, i, key_index + 1, stash)

\* Parser::parse_str_bytes: the text up to '&' or ';' with '+' and the valid
\* escapes decoded
RECURSIVE Parser_parse_str_bytes(_, _, _, _)
Parser_parse_str_bytes(s, i, start, buf) ==
  IF i >= Len(s) \/ At(s, i) \in {AMP, SEMI}
  THEN IF buf = <<>> THEN Sub(s, start, i) ELSE buf \o Sub(s, start, i)
  ELSE IF At(s, i) = PLUS
  THEN Parser_parse_str_bytes(s, i + 1, i + 1, buf \o Sub(s, start, i) \o <<SPACE>>)
  ELSE IF At(s, i) = PCT
  THEN IF Len(s) > i + 2
       THEN IF parse_char(At(s, i + 1), At(s, i + 2)) >= 0
            THEN Parser_parse_str_bytes(s, i + 3, i + 3,
                   buf \o Sub(s, start, i) \o <<parse_char(At(s, i + 1), At(s, i + 2))>>)
            ELSE Parser_parse_str_bytes(s, i + 3, start, buf)
       ELSE Parser_parse_str_bytes(s, i + 1, start, buf)
  ELSE Parser_parse_str_bytes(s, i + 1, start, buf)

\* Parser::parse_str
Parser_parse_str(s) ==
  LET checked(bytes) == IF from_utf8(bytes, 0) THEN Ok(bytes) ELSE Err("InvalidString")
  IN checked(Parser_parse_str_bytes(s, 0, 0, <<>>))

\* PairMap::parse_pair: the key up to ']' and the value, or None after a
\* pair with further groups went to the stash
PairMap_parse_pair(pm, pair) ==
  LET key_index == FindByte(pair.key, 0, {RBR}) IN
  IF key_index = Len(pair.key) THEN Err("InvalidMapKey")
  ELSE IF Len(pair.key) > key_index + 1
  THEN IF Len(pair.key) > key_index + 2 /\ At(pair.key, key_index + 1) = LBR
       THEN Ok([some |-> FALSE, key |-> <<>>, value |-> <<>>,
                map |-> [pm EXCEPT !.stash = Stash_add(@, Sub(pair.key, 0, key_index),
                                                       From(pair.key, key_index + 2),
                                                       pair.value)]])
       ELSE Err("InvalidMapKey")
  ELSE Ok([some |-> TRUE, key |-> Sub(pair.key, 0, key_index),
           value |-> pair.value, map |-> pm])

\* PairMap::next_key: pairs are taken from the back until one names a key of
\* this level
RECURSIVE PairMap_next_key(_)
PairMap_next_key(pm) ==
  IF pm.pairs = <<>> THEN Ok([some |-> FALSE, key |-> <<>>, map |-> pm])
  ELSE and_then(PairMap_parse_pair([pm EXCEPT !.pairs = SubSeq(@, 1, Len(@) - 1)],
                                   pm.pairs[Len(pm.pairs)]),
                LAMBDA r : IF r.some
                           THEN Ok([some |-> TRUE, key |-> r.key,
                                    map |-> [r.map EXCEPT !.value = Some(r.value)]])
                           ELSE PairMap_next_key(r.map))

\* MapAccess::next_key_seed of PairMap: the keys of this level, then the
\* groups of the stash
PairMap_next_key_seed(pm) ==
  IF pm.stash.remaining_depth = 0 THEN Err("MaximumDepthReached")
  ELSE and_then(PairMap_next_key(pm),
         LAMBDA k : IF k.some THEN Ok(k)
                    ELSE and_then(Stash_next_key(k.map.stash),
                           LAMBDA n : Ok([some |-> n.some, key |-> n.key,
                                          map |-> [k.map EXCEPT !.stash = n.stash]])))

\* struct A { a: B } and struct B { a: Box<Option<B>>, n: Option<leaf> };
\* without a leaf B is the B of deserialize_recursion_overflow
NoLeaf == [k |-> "absent"]
Ignored == [k |-> "ignored"]
ChainA(leaf) == [k |-> "A", leaf |-> leaf]
ChainB(leaf) == [k |-> "B", leaf |-> leaf]

\* the fields of a record type, "a" (97) and "n" (110)
Fields(shape) ==
  IF shape.k = "A" THEN (<<97>> :> ChainB(shape.leaf))
  ELSE IF shape.leaf = NoLeaf THEN (<<97>> :> Option(shape))
  ELSE (<<97>> :> Option(shape) @@ <<110>> :> Option(shape.leaf))

\* the type a key's value is deserialized as: a field's type, or IgnoredAny
Field(shape, key) ==
  IF shape.k \in {"A", "B"} /\ key \in DOMAIN Fields(shape)
  THEN Fields(shape)[key] ELSE Ignored

\* the derived visitor's value at the end of the map: a missing Option field
\* is None, another missing field is an error
StructValue(shape, seen) ==
  IF \E f \in DOMAIN Fields(shape) : f \notin DOMAIN seen /\ Fields(shape)[f].k # "option"
  THEN Err("Custom")
  ELSE Ok([k |-> "struct",
           m |-> [f \in DOMAIN Fields(shape) |->
                    IF f \in DOMAIN seen THEN seen[f] ELSE [k |-> "none"]]])

NoFields == [f \in {} |-> [k |-> "none"]]

\* the derived visitor keeps the value of a field and drops an ignored one
Seen(seen, shape, key, v) ==
  IF shape.k \in {"A", "B"} /\ key \in DOMAIN Fields(shape) THEN Put(seen, key, v) ELSE seen

\* a key read through Deserializer::new(key): deserialize_identifier is
\* deserialize_any, which gives the decoded text to the visitor; IgnoredAny
\* takes every key
Identifier(shape, key) ==
  IF shape = Ignored THEN Ok(key)
  ELSE IF key = <<>> THEN Err("Custom")
  ELSE IF At(key, 0) = EQ THEN Err("InvalidMapKey")
  ELSE Parser_parse_str(key)

\* The methods of de::Deserializer for a Deserializer over slice s with the
\* remaining depth, for the types that are no records: deserialize_option,
\* deserialize_seq with SeqAccess::next_element_seed (the elements are the
\* texts between ',' and each gets one unit less), and deserialize_any for a
\* String and for IgnoredAny
RECURSIVE Deserializer_deserialize(_, _, _)
RECURSIVE Deserializer_next_element_seed(_, _, _, _, _)
Deserializer_deserialize(s, depth, shape) ==
  CASE shape.k = "option" ->
         IF s = <<>> \/ At(s, 0) \in {AMP, SEMI} THEN Ok([k |-> "none"])
         ELSE and_then(Deserializer_deserialize(s, depth, shape.e),
                       LAMBDA v : Ok([k |-> "some", v |-> v]))
    [] shape.k = "seq" ->
         IF depth = 0 THEN Err("MaximumDepthReached")
         ELSE Deserializer_next_element_seed(s, 0, depth, shape.e, <<>>)
    [] shape.k = "string" ->
         IF s = <<>> THEN Err("Custom")
         ELSE IF At(s, 0) = EQ THEN Err("InvalidMapKey")
         ELSE and_then(Parser_parse_str(s), LAMBDA b : Ok([k |-> "string", s |-> b]))
    [] shape.k = "ignored" ->
         IF s = <<>> THEN Ok(Ignored)
         ELSE IF At(s, 0) = EQ THEN Err("InvalidMapKey")
         ELSE and_then(Parser_parse_str(s), LAMBDA b : Ok(Ignored))

Deserializer_next_element_seed(s, i, depth, e, acc) ==
  IF i >= Len(s) THEN Ok([k |-> "seq", items |-> acc])
  ELSE and_then(Deserializer_deserialize(Sub(s, i, FindByte(s, i, {COMMA, AMP, SEMI})),
                                         depth - 1, e),
                LAMBDA v : Deserializer_next_element_seed(
                             s, FindByte(s, i, {COMMA, AMP, SEMI}) + 1, depth, e,
                             Append(acc, v)))

\* A visit in progress is a stack of frames, one per visit_map call that has
\* not returned: a MapEntry over a Deserializer ("entry") or a PairMap
\* ("map"), with the record type, the fields seen, the key whose value is
\* due and whether the record is the Some of an Option.
Immediate(res) == [done |-> TRUE, res |-> res]

Some_of(b) ==
  IF b.done
  THEN Immediate(and_then(b.res, LAMBDA v : Ok([k |-> "some", v |-> v])))
  ELSE [b EXCEPT !.frame.some = TRUE]

\* deserialize_struct of a Deserializer: visit_map(MapEntry::new(self)) unless
\* no depth remains; deserialize_option looks at the first byte
RECURSIVE Deserializer_begin(_, _, _)
Deserializer_begin(s, depth, shape) ==
  IF shape.k \in {"A", "B"}
  THEN IF depth = 0 THEN Immediate(Err("MaximumDepthReached"))
       ELSE [done |-> FALSE,
             frame |-> [kind |-> "entry", s |-> s, index |-> 0,
                        stash |-> Stash_new(depth), depth |-> depth,
                        shape |-> shape, seen |-> NoFields, key |-> None,
                        some |-> FALSE]]
  ELSE IF shape.k = "option" /\ shape.e.k \in {"A", "B"}
  THEN IF s = <<>> \/ At(s, 0) \in {AMP, SEMI} THEN Immediate(Ok([k |-> "none"]))
       ELSE Some_of(Deserializer_begin(s, depth, shape.e))
  ELSE Immediate(Deserializer_deserialize(s, depth, shape))

\* The methods of de::Deserializer for PairMap: deserialize_option, and
\* deserialize_any, which is visit_map, for every other type
RECURSIVE PairMap_begin(_, _)
PairMap_begin(pm, shape) ==
  CASE shape.k \in {"A", "B", "ignored"} ->
         [done |-> FALSE,
          frame |-> [kind |-> "map", map |-> pm, shape |-> shape,
                     seen |-> NoFields, key |-> None, some |-> FALSE]]
    [] shape.k = "option" ->
         IF pm.pairs = <<>> THEN Immediate(Ok([k |-> "none"]))
         ELSE Some_of(PairMap_begin(pm, shape.e))
    [] shape.k = "string" -> Immediate(Err("Custom"))

\* an error ends the call: every visitor on the stack returns it
Failed(e) == [table |-> <<>>, result |-> e, pc |-> "done"]

\* a value returns to the frame that asked for it, or ends the call
Returned(stack, res) ==
  IF ~res.ok THEN Failed(res)
  ELSE IF stack = <<>> THEN [table |-> <<>>, result |-> res, pc |-> "done"]
  ELSE [table |-> [stack EXCEPT ![Len(stack)] =
                     [@ EXCEPT !.seen = Seen(@, stack[Len(stack)].shape,
                                             stack[Len(stack)].key.bytes, res.v),
                               !.key = None]],
        result |-> NoResult, pc |-> "visit"]

\* a deserialize call either returns at once or becomes the top frame
Begun(stack, b) ==
  IF b.done THEN Returned(stack, b.res)
  ELSE [table |-> Append(stack, b.frame), result |-> NoResult, pc |-> "visit"]

\* the top frame's keys are exhausted: its visitor returns the record
Finished(stack) ==
  LET f == stack[Len(stack)]
      value(res) == IF f.some THEN and_then(res, LAMBDA v : Ok([k |-> "some", v |-> v]))
                    ELSE res
  IN Returned(SubSeq(stack, 1, Len(stack) - 1),
              value(IF f.shape = Ignored THEN Ok(Ignored)
                    ELSE StructValue(f.shape, f.seen)))

\* the top frame with some of its fields replaced
Top(stack) == stack[Len(stack)]
WithKey(stack, shape, key, f) ==
  LET named(name) ==
        IF ~name.ok THEN Failed(name)
        ELSE IF name.v \in DOMAIN Top(stack).seen THEN Failed(Err("Custom"))
        ELSE [table |-> [stack EXCEPT ![Len(stack)] = [f EXCEPT !.key = Some(name.v)]],
              result |-> NoResult, pc |-> "visit"]
  IN named(Identifier(shape, key))

\* MapAccess::next_value_seed of PairMap: a value of this level is read by a
\* Deserializer with one unit less, a group by the map of the next level
PairMap_next_value_seed(pm, shape) ==
  IF pm.value.some
  THEN [map |-> [pm EXCEPT !.value = None],
        begin |-> Deserializer_begin(pm.value.bytes, pm.stash.remaining_depth - 1, shape)]
  ELSE LET next(m) ==
             IF ~m.ok THEN [map |-> pm, begin |-> Immediate(m)]
             ELSE [map |-> [pm EXCEPT !.stash = m.v.stash],
                   begin |-> PairMap_begin(m.v.map, shape)]
       IN next(Stash_next_value_map(pm.stash))

\* ------------------------------------------------------------------------
\* Calls of the depth-limited engine on keys of up to MaxGroups groups; the
\* stack of frames is kept in table
\* ------------------------------------------------------------------------
MaxGroups == 66

\* "[a]" n times
RECURSIVE Groups(_)
Groups(n) == IF n = 0 THEN <<>> ELSE <<LBR, 97, RBR>> \o Groups(n - 1)

\* "", "7", "1,2", "="
ChainValues == { <<>>, <<55>>, <<49, COMMA, 50>>, <<EQ>> }

\* the key "a[a]...[a][last]" of n groups with its value
ChainQuery(n, last, value) ==
  <<97>> \o Groups(n - 1) \o <<LBR, last, RBR, EQ>> \o value

ChainInit ==
  /\ parts \in {<<ChainQuery(n, last, value)>> :
                  n \in {1, 2} \cup ((MaxGroups - 3)..MaxGroups),
                  last \in {97, 110}, value \in ChainValues}
  /\ mode = "Stash"
  /\ delimiter = COMMA
  /\ ehandler = NoHandler
  /\ response = NoResponse
  /\ target \in {ChainA(NoLeaf), ChainA(String), ChainA(Vec(String))}
  /\ table = <<>>
  /\ result = NoResult
  /\ pc = "start"
  /\ DecodeIdle

\* from_str::<A>(query): A::deserialize(&mut Deserializer::new(query))
from_str ==
  /\ pc = "start"
  /\ mode = "Stash"
  /\ \E out \in {Begun(<<>>, Deserializer_begin(Query, Deserializer_new, target))} :
       table' = out.table /\ result' = out.result /\ pc' = out.pc
  /\ UNCHANGED <<parts, mode, delimiter, ehandler, response, target>>
  /\ UNCHANGED decodeVars

\* MapAccess::next_key_seed of MapEntry: the next key without brackets, then
\* the groups of the stash
MapEntryNextKeySeed ==
  /\ pc = "visit"
  /\ Top(table).kind = "entry"
  /\ ~Top(table).key.some
  /\ LET f == Top(table)
         stashed(i, n) ==
           IF ~n.ok THEN Failed(n)
           ELSE IF n.v.some
           THEN WithKey(table, f.shape, n.v.key, [f EXCEPT !.index = i, !.stash = n.v.stash])
           ELSE Finished([table EXCEPT ![Len(table)].stash = n.v.stash])
         parsed(k) ==
           IF ~k.ok THEN Failed(k)
           ELSE IF k.v.some
           THEN WithKey(table, f.shape, k.v.key,
                        [f EXCEPT !.index = k.v.index, !.stash = k.v.stash])
           ELSE stashed(k.v.index, Stash_next_key(k.v.stash))
     IN \E out \in {parsed(Parser_parse_key(f.s, f.index, f.index, f.stash))} :
          table' = out.table /\ result' = out.result /\ pc' = out.pc
  /\ UNCHANGED <<parts, mode, delimiter, ehandler, response, target>>
  /\ UNCHANGED decodeVars

\* MapAccess::next_value_seed of MapEntry: a value is read in place by the
\* Deserializer; a group of the stash is the map of the first bracket
\* level, which starts with the Deserializer's whole depth
MapEntryNextValueSeed ==
  /\ pc = "visit"
  /\ Top(table).kind = "entry"
  /\ Top(table).key.some
  /\ LET f == Top(table)
         end == FindByte(f.s, f.index, {AMP, SEMI})
         out == IF f.stash.values.some
                THEN Begun([table EXCEPT ![Len(table)].stash.values = NoValues],
                           PairMap_begin(PairMap_new(f.stash.remaining_depth,
                                                     f.stash.values.pairs),
                                         Field(f.shape, f.key.bytes)))
                ELSE IF At(f.s, f.index - 1) = EQ
                THEN Begun([table EXCEPT ![Len(table)].index = end + 1],
                           Deserializer_begin(Sub(f.s, f.index, end), f.depth,
                                              Field(f.shape, f.key.bytes)))
                ELSE Begun(table, Deserializer_begin(<<>>, f.depth,
                                                     Field(f.shape, f.key.bytes)))
     IN \E o \in {out} : table' = o.table /\ result' = o.result /\ pc' = o.pc
  /\ UNCHANGED <<parts, mode, delimiter, ehandler, response, target>>
  /\ UNCHANGED decodeVars

\* MapAccess::next_key_seed of PairMap, called by the visitor of the top frame
NextKeySeed ==
  /\ pc = "visit"
  /\ Top(table).kind = "map"
  /\ ~Top(table).key.some
  /\ LET f == Top(table)
         keyed(k) ==
           IF ~k.ok THEN Failed(k)
           ELSE IF k.v.some
           THEN WithKey(table, f.shape, k.v.key, [f EXCEPT !.map = k.v.map])
           ELSE Finished([table EXCEPT ![Len(table)].map = k.v.map])
     IN \E out \in {keyed(PairMap_next_key_seed(f.map))} :
          table' = out.table /\ result' = out.result /\ pc' = out.pc
  /\ UNCHANGED <<parts, mode, delimiter, ehandler, response, target>>
  /\ UNCHANGED decodeVars

\* MapAccess::next_value_seed of PairMap, called by the visitor of the top
\* frame
NextValueSeed ==
  /\ pc = "visit"
  /\ Top(table).kind = "map"
  /\ Top(table).key.some
  /\ \E r \in {PairMap_next_value_seed(Top(table).map,
                                       Field(Top(table).shape, Top(table).key.bytes))} :
       \E out \in {Begun([table EXCEPT ![Len(table)].map = r.map], r.begin)} :
          table' = out.table /\ result' = out.result /\ pc' = out.pc
  /\ UNCHANGED <<parts, mode, delimiter, ehandler, response, target>>
  /\ UNCHANGED decodeVars

ChainNext ==
  \/ from_str
  \/ MapEntryNextKeySeed
  \/ MapEntryNextValueSeed
  \/ NextKeySeed
  \/ NextValueSeed

SpecChain == ChainInit /\ [][ChainNext]_vars

\* ---------------------------------------------------------------------------
\* The nested engine of de/map.rs, de/stash.rs and de/seq.rs: a PairMap holds
\* the pairs of one level with its remaining depth; pairs with a further
\* sub-key are stashed by their key and become the PairMap of the next level.
\* Every operation that may descend carries a context cx: the build's
\* overflow checks (cx.oc) and the log of every evaluation of
\* `remaining_depth - 1` as <<parent, child>>.
\* ---------------------------------------------------------------------------

\* The largest u16.
U16_MAX == 65535

Fail(kind, log) == [ok |-> FALSE, kind |-> kind, log |-> log]

\* An error of an operation that does not descend, with the log so far.
WithLog(r, log) == IF r.ok THEN r ELSE Fail(r.kind, log)

\* The u16 expression `self.remaining_depth - 1`: at 0 it panics under
\* overflow checks and wraps to the largest u16 without them.
remaining_depth_sub(depth, cx) ==
  IF depth > 0
  THEN Ok([depth |-> depth - 1, log |-> Append(cx.log, <<depth, depth - 1>>)])
  ELSE IF cx.oc
  THEN Fail("Panic", Append(cx.log, <<depth, -1>>))
  ELSE Ok([depth |-> U16_MAX, log |-> Append(cx.log, <<depth, U16_MAX>>)])

\* SubKey::next_key: the bytes up to the closing bracket (plain or %5D) and
\* the slice after it.
RECURSIVE SubKey_next_key(_, _)
SubKey_next_key(s, i) ==
  IF i >= Len(s) THEN Err("InvalidMapKey")
  ELSE IF At(s, i) = RBR
  THEN Ok([key |-> Sub(s, 0, i), slice |-> From(s, i + 1)])
  ELSE IF At(s, i) = PCT /\ i + 2 < Len(s)
          /\ parse_char(At(s, i + 1), At(s, i + 2)) = RBR
  THEN Ok([key |-> Sub(s, 0, i), slice |-> From(s, i + 3)])
  ELSE SubKey_next_key(s, i + 1)

\* SubKey::next_subkey: what follows an opening bracket (plain or %5B), None
\* at the end of the key, an error on anything else.
SubKey_next_subkey(s) ==
  IF Len(s) > 0
  THEN IF Len(s) > 1 /\ At(s, 0) = LBR THEN Ok(Some(From(s, 1)))
       ELSE IF Len(s) > 2 /\ At(s, 0) = PCT
               /\ parse_char(At(s, 1), At(s, 2)) = LBR
       THEN Ok(Some(From(s, 3)))
       ELSE Err("InvalidMapKey")
  ELSE Ok(None)

map_Stash_new == [pairs |-> <<>>, values |-> NoValues]

\* Stash::add_subkey: the pair goes to the front of its key's group; a new
\* group goes to the front of the stash.
map_Stash_add_subkey(st, key, sub, value) ==
  LET pair == [key |-> sub, value |-> value]
      found == {i \in 1..Len(st.pairs) : st.pairs[i].key = key}
  IN IF found # {}
     THEN LET i == CHOOSE j \in found : \A k \in found : j <= k
          IN [st EXCEPT !.pairs[i].pairs = <<pair>> \o @]
     ELSE [st EXCEPT !.pairs = <<[key |-> key, pairs |-> <<pair>>]>> \o @]

\* Stash::next_key: pops the group at the back and keeps its pairs as the
\* pending values.
map_Stash_next_key(st) ==
  IF st.pairs # <<>>
  THEN LET g == st.pairs[Len(st.pairs)]
       IN [some |-> TRUE, key |-> g.key,
           stash |-> [pairs |-> SubSeq(st.pairs, 1, Len(st.pairs) - 1),
                      values |-> [some |-> TRUE, pairs |-> g.pairs]]]
  ELSE [some |-> FALSE, key |-> <<>>, stash |-> st]

\* Stash::next_value: takes the pending values.
map_Stash_next_value(st) ==
  IF st.values.some
  THEN Ok([pairs |-> st.values.pairs, stash |-> [st EXCEPT !.values = NoValues]])
  ELSE Err("EofReached")

map_PairMap_new(pairs, remaining_depth) ==
  [pairs |-> pairs, value |-> None, stash |-> map_Stash_new,
   remaining_depth |-> remaining_depth]

\* PairMap::parse_pair: a pair of this level, or None after stashing a pair
\* that has a further sub-key.
map_PairMap_parse_pair(pm, pair) ==
  and_then(SubKey_next_key(pair.key, 0), LAMBDA k :
    and_then(SubKey_next_subkey(k.slice), LAMBDA sub :
      IF sub.some
      THEN Ok([some |-> FALSE, key |-> <<>>, value |-> <<>>,
               map |-> [pm EXCEPT !.stash =
                          map_Stash_add_subkey(@, k.key, sub.bytes, pair.value)]])
      ELSE Ok([some |-> TRUE, key |-> k.key, value |-> pair.value, map |-> pm])))

\* PairMap::next_key: pops pairs from the back until one belongs to this
\* level; its value is kept for next_value.
RECURSIVE map_PairMap_next_key(_)
map_PairMap_next_key(pm) ==
  IF pm.pairs = <<>> THEN Ok([some |-> FALSE, key |-> <<>>, map |-> pm])
  ELSE and_then(map_PairMap_parse_pair(
                  [pm EXCEPT !.pairs = SubSeq(@, 1, Len(@) - 1)],
                  pm.pairs[Len(pm.pairs)]),
                LAMBDA r :
                  IF r.some
                  THEN Ok([some |-> TRUE, key |-> r.key,
                           map |-> [r.map EXCEPT !.value = Some(r.value)]])
                  ELSE map_PairMap_next_key(r.map))

\* MapAccess::next_key_seed: refuses at depth 0, then the keys of this level
\* and after them the keys of the stash.
map_PairMap_next_key_seed(pm) ==
  IF pm.remaining_depth = 0 THEN Err("MaximumDepthReached")
  ELSE and_then(map_PairMap_next_key(pm), LAMBDA r :
         IF r.some THEN Ok(r)
         ELSE LET n == map_Stash_next_key(r.map.stash)
              IN Ok([some |-> n.some, key |-> n.key,
                     map |-> [r.map EXCEPT !.stash = n.stash]]))

\* The leaf deserializer Value over the parser of one key or value: text for
\* a string target.
Value_deserialize(bytes, shape) ==
  IF shape.k = "string"
  THEN and_then(Parser_parse_str(bytes), LAMBDA s : Ok([k |-> "string", s |-> s]))
  ELSE Err("InvalidType")

\* The leaf deserializer Value asked for a u16: a decimal number that fits.
RECURSIVE Value_deserialize_u16(_, _, _)
Value_deserialize_u16(key, i, acc) ==
  IF i >= Len(key) THEN (IF i > 0 THEN Ok(acc) ELSE Err("EofReached"))
  ELSE IF IsDigit(At(key, i)) /\ acc * 10 + (At(key, i) - 48) <= U16_MAX
  THEN Value_deserialize_u16(key, i + 1, acc * 10 + (At(key, i) - 48))
  ELSE Err("InvalidNumber")

ItemKind_Value(value) == [kind |-> "Value", value |-> value]
ItemKind_Map(map) == [kind |-> "Map", map |-> map]

\* PairMap::prepend of the stashed pairs to the pairs of an earlier map.
map_PairMap_prepend(pm, pairs) == [pm EXCEPT !.pairs = pairs \o @]

\* PairMap::into_pairs: the items of this level in input order, pairs with a
\* further sub-key becoming a map one level down, merged by key.
RECURSIVE map_PairMap_into_pairs(_, _, _)
map_PairMap_into_pairs(pm, values, cx) ==
  IF pm.pairs = <<>> THEN Ok([values |-> values, log |-> cx.log])
  ELSE
    and_then(WithLog(map_PairMap_parse_pair(
                       [pm EXCEPT !.pairs = SubSeq(@, 1, Len(@) - 1)],
                       pm.pairs[Len(pm.pairs)]), cx.log),
      LAMBDA r :
        IF r.some
        THEN map_PairMap_into_pairs(
               r.map, Append(values, [key |-> r.key, item |-> ItemKind_Value(r.value)]), cx)
        ELSE
          LET n == map_Stash_next_key(r.map.stash)
              seen == {i \in 1..Len(values) : values[i].key = n.key}
              push(m) ==
                and_then(WithLog(map_Stash_next_value(n.stash), cx.log), LAMBDA nv :
                  and_then(remaining_depth_sub(m.remaining_depth, cx), LAMBDA d :
                    map_PairMap_into_pairs(
                      [m EXCEPT !.stash = nv.stash],
                      Append(values,
                             [key |-> n.key,
                              item |-> ItemKind_Map(map_PairMap_new(nv.pairs, d.depth))]),
                      [cx EXCEPT !.log = d.log])))
          IN IF ~n.some THEN map_PairMap_into_pairs(r.map, values, cx)
             ELSE IF n.key = <<>> THEN push(r.map)
             ELSE IF seen # {}
             THEN LET i == CHOOSE j \in seen : \A k \in seen : j <= k
                  IN IF values[i].item.kind = "Map"
                     THEN and_then(WithLog(map_Stash_next_value(n.stash), cx.log),
                            LAMBDA nv :
                              map_PairMap_into_pairs(
                                [r.map EXCEPT !.stash = nv.stash],
                                [values EXCEPT ![i].item.map =
                                   map_PairMap_prepend(@, nv.pairs)],
                                cx))
                     ELSE map_PairMap_into_pairs(
                            [r.map EXCEPT !.stash = n.stash], values, cx)
             ELSE push(r.map))

\* KeyType of an item's key: None for the empty key, Number for a u16, Name
\* otherwise.
KeyType(key) ==
  IF key = <<>> THEN [t |-> "None"]
  ELSE LET number == Value_deserialize_u16(key, 0, 0)
       IN IF number.ok THEN [t |-> "Number", n |-> number.v]
          ELSE [t |-> "Name", name |-> key]

\* PartialOrd of KeyType under unwrap_or(Equal): numbers by value, a number
\* above everything else, the rest equal.
KeyType_less(a, b) ==
  IF a.t = "Number" THEN b.t = "Number" /\ a.n < b.n ELSE b.t = "Number"

\* PartialEq of KeyType: equal numbers, equal names; None equals nothing.
KeyType_eq(a, b) ==
  \/ a.t = "Number" /\ b.t = "Number" /\ a.n = b.n
  \/ a.t = "Name" /\ b.t = "Name" /\ a.name = b.name

\* The stable sort of items.sort_by.
RECURSIVE items_sort_by(_, _)
items_sort_by(items, sorted) ==
  IF items = <<>> THEN sorted
  ELSE LET x == Head(items)
           after == {i \in 1..Len(sorted) : KeyType_less(x.key, sorted[i].key)}
           at == IF after = {} THEN Len(sorted) + 1
                 ELSE CHOOSE j \in after : \A k \in after : j <= k
       IN items_sort_by(Tail(items),
                        SubSeq(sorted, 1, at - 1) \o <<x>> \o SubSeq(sorted, at, Len(sorted)))

items_reverse(items) == [i \in 1..Len(items) |-> items[Len(items) + 1 - i]]

\* items.dedup_by: of a run of equal keys the first stays.
RECURSIVE items_dedup_by(_, _)
items_dedup_by(items, kept) ==
  IF items = <<>> THEN kept
  ELSE IF kept # <<>> /\ KeyType_eq(Head(items).key, kept[Len(kept)].key)
  THEN items_dedup_by(Tail(items), kept)
  ELSE items_dedup_by(Tail(items), Append(kept, Head(items)))

\* PairMap::into_seq: the items keyed by KeyType, sorted, reversed and
\* deduplicated; PairSeq pops them from the end.
map_PairMap_into_seq(pm, cx) ==
  and_then(map_PairMap_into_pairs(pm, <<>>, cx), LAMBDA p :
    LET items == [i \in 1..Len(p.values) |->
                    [key |-> KeyType(p.values[i].key), item |-> p.values[i].item]]
        ordered == items_dedup_by(items_reverse(items_sort_by(items, <<>>)), <<>>)
    IN Ok([items |-> [i \in 1..Len(ordered) |-> ordered[i].item], log |-> p.log]))

\* Deserializer for PairMap with the visitors of the target: an option is
\* none without pairs, a sequence goes through into_seq and
\* PairSeq::next_element_seed, a map through next_key_seed and
\* next_value_seed, and a scalar is refused.
RECURSIVE map_PairMap_deserialize(_, _, _)
RECURSIVE map_PairMap_visit_map(_, _, _, _)
RECURSIVE map_PairMap_next_value_seed(_, _, _)
RECURSIVE PairSeq_visit_seq(_, _, _, _)
map_PairMap_deserialize(pm, shape, cx) ==
  CASE shape.k = "option" ->
         IF pm.pairs = <<>> THEN Ok([v |-> [k |-> "none"], log |-> cx.log])
         ELSE and_then(map_PairMap_deserialize(pm, shape.e, cx), LAMBDA r :
                Ok([v |-> [k |-> "some", v |-> r.v], log |-> r.log]))
    [] shape.k = "seq" ->
         and_then(map_PairMap_into_seq(pm, cx), LAMBDA s :
           PairSeq_visit_seq(s.items, shape.e, <<>>, [cx EXCEPT !.log = s.log]))
    [] shape.k = "map" -> map_PairMap_visit_map(pm, shape.e, EmptyMap, cx)
    [] OTHER -> Fail("ExpectedValue", cx.log)

\* The visitor of a map target: keys as text until next_key_seed gives None.
map_PairMap_visit_map(pm, e, acc, cx) ==
  and_then(WithLog(map_PairMap_next_key_seed(pm), cx.log), LAMBDA k :
    IF ~k.some THEN Ok([v |-> [k |-> "map", m |-> acc], log |-> cx.log])
    ELSE and_then(WithLog(Value_deserialize(k.key, String), cx.log), LAMBDA key :
           and_then(map_PairMap_next_value_seed(k.map, e, cx), LAMBDA r :
             map_PairMap_visit_map(r.map, e, Put(acc, key.s, r.v),
                                   [cx EXCEPT !.log = r.log]))))

\* MapAccess::next_value_seed: the value kept by next_key, or the stashed
\* pairs as a PairMap one level down.
map_PairMap_next_value_seed(pm, e, cx) ==
  IF pm.value.some
  THEN and_then(WithLog(Value_deserialize(pm.value.bytes, e), cx.log), LAMBDA v :
         Ok([v |-> v, map |-> [pm EXCEPT !.value = None], log |-> cx.log]))
  ELSE and_then(WithLog(map_Stash_next_value(pm.stash), cx.log), LAMBDA nv :
         and_then(remaining_depth_sub(pm.remaining_depth, cx), LAMBDA d :
           and_then(map_PairMap_deserialize(map_PairMap_new(nv.pairs, d.depth), e,
                                            [cx EXCEPT !.log = d.log]),
             LAMBDA r :
               Ok([v |-> r.v, map |-> [pm EXCEPT !.stash = nv.stash],
                   log |-> r.log]))))

\* The visitor of a sequence target over PairSeq::next_element_seed, which
\* pops the items from the end.
PairSeq_visit_seq(items, e, acc, cx) ==
  IF items = <<>> THEN Ok([v |-> [k |-> "seq", items |-> acc], log |-> cx.log])
  ELSE LET item == items[Len(items)]
           rest == SubSeq(items, 1, Len(items) - 1)
       IN IF item.kind = "Value"
          THEN and_then(WithLog(Value_deserialize(item.value, e), cx.log), LAMBDA v :
                 PairSeq_visit_seq(rest, e, Append(acc, v), cx))
          ELSE and_then(map_PairMap_deserialize(item.map, e, cx), LAMBDA r :
                 PairSeq_visit_seq(rest, e, Append(acc, r.v),
                                   [cx EXCEPT !.log = r.log]))

\* The largest remaining depth a root PairMap starts with.
MaxDepth == 2

\* Pairs whose keys are sub-key slices: a leaf, a numbered leaf, a map under
\* a name, a map under a number, a second level under a number, an empty
\* sub-key and a key that never closes.
DepthTexts ==
  { <<97, 93, 61, 49>>,
    <<48, 93, 61, 50>>,
    <<97, 93, 91, 98, 93, 61, 51>>,
    <<97, 93, 91, 48, 93, 61, 52>>,
    <<97, 93, 91, 48, 93, 91, 120, 93, 61, 53>>,
    <<97, 93, 91, 93, 91, 120, 93, 61, 54>>,
    <<97, 61, 55>> }

\* One text as the pair of its sub-key slice and its value.
DepthPair(text) ==
  LET eq == FindByte(text, 0, {EQ})
  IN [key |-> Sub(text, 0, eq), value |-> From(text, eq + 1)]

\* A root PairMap over up to MaxPairs pairs (the first at the back of the
\* queue) with a remaining depth of 1..MaxDepth.
DepthInit ==
  /\ parts \in PartsUpTo(DepthTexts, MaxPairs)
  /\ mode = "PairMap"
  /\ delimiter = 0
  /\ ehandler = NoHandler
  /\ response = NoResponse
  /\ target \in { HashMap(String), HashMap(HashMap(String)), HashMap(Vec(String)),
                  HashMap(Vec(HashMap(String))), HashMap(Option(HashMap(String))) }
  /\ \E depth \in 1..MaxDepth :
       table = map_PairMap_new(
                 [i \in 1..Len(parts) |-> DepthPair(parts[Len(parts) + 1 - i])], depth)
  /\ result = NoResult
  /\ pc = "root"
  /\ slice = <<>> /\ cursor = 0 /\ index = 0 /\ scratch = <<>>
  /\ decoded = NoRef /\ dpc = "idle"

\* The target deserialized from the root PairMap, in a build with or without
\* overflow checks; table keeps the log of the descents.
PairMapDeserialize ==
  /\ pc = "root"
  /\ \E oc \in BOOLEAN :
       \E out \in {map_PairMap_deserialize(table, target, [oc |-> oc, log |-> <<>>])} :
         /\ result' = IF out.ok THEN Ok(out.v.v) ELSE Err(out.kind)
         /\ table' = IF out.ok THEN out.v.log ELSE out.log
  /\ pc' = "done"
  /\ UNCHANGED <<parts, mode, delimiter, ehandler, response, target>>
  /\ UNCHANGED decodeVars

DepthNext == PairMapDeserialize

SpecDepth == DepthInit /\ [][DepthNext]_vars

\* ---------------------------------------------------------------------------
\* The byte offset of an InvalidEncoding error: RawSlice::parse_str of
\* de/slices.rs and ValueDeserializer::parse_str of de/value.rs
\* ---------------------------------------------------------------------------

\* The width of the well-formed UTF-8 character at b[i], 0 if there is none.
Utf8Width(b, i) ==
  LET c == At(b, i)
      n == Len(b) - i
  IN IF c < 128 THEN 1
     ELSE IF c >= 194 /\ c <= 223
     THEN IF n >= 2 /\ IsCont(At(b, i + 1)) THEN 2 ELSE 0
     ELSE IF c >= 224 /\ c <= 239
     THEN IF /\ n >= 3
             /\ IsCont(At(b, i + 1)) /\ IsCont(At(b, i + 2))
             /\ (c = 224 => At(b, i + 1) >= 160)
             /\ (c = 237 => At(b, i + 1) <= 159)
          THEN 3 ELSE 0
     ELSE IF c >= 240 /\ c <= 244
     THEN IF /\ n >= 4
             /\ IsCont(At(b, i + 1)) /\ IsCont(At(b, i + 2)) /\ IsCont(At(b, i + 3))
             /\ (c = 240 => At(b, i + 1) >= 144)
             /\ (c = 244 => At(b, i + 1) <= 143)
          THEN 4 ELSE 0
     ELSE 0

\* Utf8Error::valid_up_to: the length of the longest well-formed prefix.
RECURSIVE valid_up_to(_, _)
valid_up_to(b, i) ==
  IF i >= Len(b) \/ Utf8Width(b, i) = 0 THEN i
  ELSE valid_up_to(b, i + Utf8Width(b, i))

\* An error with the byte offset it reports.
ErrAt(kind, at) == [ok |-> FALSE, kind |-> kind, index |-> at]

\* RawSlice::parse_str with its error: the offset is valid_up_to of the
\* decoded bytes as it is.
RawSlice_parse_str(raw) ==
  LET r == parse_bytes(raw) IN
  IF from_utf8(r.bytes, 0) THEN Ok(r)
  ELSE ErrAt("InvalidEncoding", valid_up_to(r.bytes, 0))

\* parse_char of de/value.rs over a slice of any length: the index bytes[1]
\* is out of bounds for a slice of one byte.
value_parse_char(bytes) ==
  IF to_digit16(At(bytes, 0)) < 0 THEN Ok(-1)
  ELSE IF Len(bytes) < 2 THEN Err("Panic")
  ELSE Ok(parse_char(At(bytes, 0), At(bytes, 1)))

\* ValueDeserializer::index_before_decoding: walks the cursor up to the
\* index and adds 3 for every '%' whose parse_char over the one byte
\* slice[cursor + 1 .. cursor + 2] is Some.
RECURSIVE index_before_decoding(_, _, _)
index_before_decoding(s, at, c) ==
  IF c < at
  THEN IF At(s, c) = PCT /\ Len(s) > c + 2
       THEN and_then(value_parse_char(Sub(s, c + 1, c + 2)), LAMBDA b :
              index_before_decoding(s, IF b >= 0 THEN at + 3 ELSE at, c + 1))
       ELSE index_before_decoding(s, at, c + 1)
  ELSE Ok(at)

\* ValueDeserializer::parse_str_bytes: the decode loop of de/value.rs, the
\* same steps as parse_bytes.
ValueDeserializer_parse_str_bytes(s) == parse_bytes(s)

\* ValueDeserializer::parse_str with invalid_encoding: the offset is
\* index_before_decoding of valid_up_to.
ValueDeserializer_parse_str(s) ==
  LET r == ValueDeserializer_parse_str_bytes(s) IN
  IF from_utf8(r.bytes, 0) THEN Ok(r)
  ELSE and_then(index_before_decoding(s, valid_up_to(r.bytes, 0), 0), LAMBDA at :
         ErrAt("InvalidEncoding", at))

\* The longest raw value of the offset specification.
MaxValueLen == 6

\* '%', '4', '8' and 'C': escapes of ASCII (%44, %48, %4C), of continuation
\* bytes (%84, %88, %8C) and of two-byte leads (%C4, %C8, %CC).
OffsetBytes == {PCT, 52, 56, 67}

OffsetInit ==
  /\ slice \in UNION {[1..k -> OffsetBytes] : k \in 0..MaxValueLen}
  /\ cursor = 0
  /\ index = 0
  /\ scratch = <<>>
  /\ decoded = NoRef
  /\ dpc = "idle"
  /\ parts = <<>>
  /\ mode = "Value"
  /\ delimiter = 0
  /\ ehandler = NoHandler
  /\ response = NoResponse
  /\ target = String
  /\ table = EmptyMap
  /\ result = NoResult
  /\ pc = "value"

\* The raw value as text by the current engine.
RawSliceParseStr ==
  /\ pc = "value"
  /\ result' = RawSlice_parse_str(slice)
  /\ pc' = "RawSlice"
  /\ UNCHANGED <<parts, mode, delimiter, ehandler, response, target, table>>
  /\ UNCHANGED decodeVars

\* The raw value as text by the value deserializer.
ValueDeserializerParseStr ==
  /\ pc = "value"
  /\ result' = ValueDeserializer_parse_str(slice)
  /\ pc' = "ValueDeserializer"
  /\ UNCHANGED <<parts, mode, delimiter, ehandler, response, target, table>>
  /\ UNCHANGED decodeVars

OffsetNext == RawSliceParseStr \/ ValueDeserializerParseStr

SpecOffset == OffsetInit /\ [][OffsetNext]_vars

\* ------------------------------------------------------------------------
\* Claims about percent decoding
\* ------------------------------------------------------------------------
\* A '%' at 0-based position i of s that is followed by two hex digits.
EscapeAt(s, i) ==
  /\ At(s, i) = PCT
  /\ i + 2 < Len(s)
  /\ parse_char(At(s, i + 1), At(s, i + 2)) >= 0

\* The decoded text read off the slice left to right: '+' is a space, an
\* escape is its byte, and any other byte, a '%' that starts no escape
\* included, stands for itself and the reading goes on at the next byte.
RECURSIVE LiteralDecode(_, _)
LiteralDecode(s, i) ==
  IF i >= Len(s) THEN <<>>
  ELSE IF At(s, i) = PLUS THEN <<SPACE>> \o LiteralDecode(s, i + 1)
  ELSE IF EscapeAt(s, i)
       THEN <<parse_char(At(s, i + 1), At(s, i + 2))>> \o LiteralDecode(s, i + 3)
  ELSE <<At(s, i)>> \o LiteralDecode(s, i + 1)

HasInvalidPercent(s) ==
  \E i \in 0..(Len(s) - 1) : At(s, i) = PCT /\ ~EscapeAt(s, i)

NeedsDecoding(s) ==
  \E i \in 0..(Len(s) - 1) : At(s, i) = PLUS \/ EscapeAt(s, i)

\* C4: a '%' that is not followed by two hex digits is kept as a literal '%'
\* and scanning resumes at the very next byte, so an escape that begins at
\* that next byte is still decoded: the output of a finished decode is the
\* left-to-right reading of the slice.
C4_InvalidPercentKept ==
  dpc = "done" => decoded.bytes = LiteralDecode(slice, 0)

\* "%%25" decodes to "%%".
C4_Witness ==
  /\ dpc = "done"
  /\ slice = <<PCT, PCT, 50, 53>>
  /\ HasInvalidPercent(slice)
  /\ decoded.bytes = <<PCT, PCT>>

\* C5: the decoder returns a borrowed view of the whole input slice exactly
\* when the slice has no '+' and no '%' followed by two hex digits, and a
\* copied buffer holding exactly the decoded bytes otherwise.
C5_BorrowedIffUntouched ==
  dpc = "done" =>
    IF NeedsDecoding(slice)
    THEN decoded.tag = "Copied" /\ decoded.bytes = LiteralDecode(slice, 0)
    ELSE decoded.tag = "Borrowed" /\ decoded.bytes = slice

\* "s%25" is returned as the copied buffer "s%".
C5_Witness ==
  /\ dpc = "done"
  /\ slice = <<115, PCT, 50, 53>>
  /\ decoded = [tag |-> "Copied", bytes |-> <<115, PCT>>]

\* ------------------------------------------------------------------------
\* Claims about the typed decode
\* ------------------------------------------------------------------------
\* The key and the value of one '&'-separated part as written in the query:
\* the text before the first '=' and the text after it.
PartEq(part) ==
  IF \E i \in 1..Len(part) : part[i] = EQ
  THEN CHOOSE i \in 1..Len(part) : part[i] = EQ /\ \A j \in 1..(i - 1) : part[j] # EQ
  ELSE Len(part) + 1

PartKey(part) == LiteralDecode(SubSeq(part, 1, PartEq(part) - 1), 0)
PartValue(part) == SubSeq(part, PartEq(part) + 1, Len(part))

\* the occurrences of key in the query, in input order
Occurrences(key) == SelectSeq(parts, LAMBDA part : PartKey(part) = key)

PartRoot(part) ==
  LET stops == {i \in 1..Len(part) : part[i] = EQ \/ part[i] = LBR}
      stop == IF stops = {} THEN Len(part) + 1
              ELSE CHOOSE i \in stops : \A j \in stops : i <= j
  IN LiteralDecode(SubSeq(part, 1, stop - 1), 0)

RootOccurrences(key) == SelectSeq(parts, LAMBDA part : PartRoot(part) = key)

\* C2: under Repeated-Key-Sequence mode a key bound to an unbounded
\* sequence yields exactly one element per occurrence of the key, in the
\* order of the occurrences in the input.
C2_DuplicateSequenceInOrder ==
  (pc = "done" /\ mode = "Duplicate" /\ target = Primitive(Vec(I16))
     /\ Len(Occurrences(<<118>>)) >= 1) =>
    LET occ == Occurrences(<<118>>)
        elem(i) == parse_int(PartValue(occ[i]), I16.lo, I16.hi)
    IN IF \A i \in 1..Len(occ) : elem(i).ok
       THEN /\ result.ok
            /\ Len(result.v.m[<<118>>].items) = Len(occ)
            /\ \A i \in 1..Len(occ) : result.v.m[<<118>>].items[i] = elem(i).v
       ELSE ~result.ok

\* "v=2&v=3&v=1" gives [2, 3, 1].
C2_Witness ==
  /\ pc = "done"
  /\ mode = "Duplicate"
  /\ parts = << <<118, 61, 50>>, <<118, 61, 51>>, <<118, 61, 49>> >>
  /\ result.ok
  /\ result.v.m[<<118>>].items =
       << [k |-> "int", n |-> 2], [k |-> "int", n |-> 3], [k |-> "int", n |-> 1] >>

\* the number of elements the query gives to the key "v" in the call's mode
ElementCount ==
  IF mode = "Duplicate" THEN Len(Occurrences(<<118>>))
  ELSE Len(RootOccurrences(<<118>>))

\* C7: under the Repeated-Key-Sequence and Bracket-Path modes, a
\* fixed-arity tuple or array of n elements bound to a key that has a
\* number of elements different from n fails with InvalidLength.
C7_WrongArityInvalidLength ==
  (pc = "done" /\ mode \in {"Duplicate", "Brackets"}
     /\ target.f[<<118>>].k = "tuple"
     /\ ElementCount >= 1
     /\ ElementCount # target.f[<<118>>].n) =>
    result = Err("InvalidLength")

\* "v=1&v=2&v=3" into a pair fails with InvalidLength.
C7_Witness ==
  /\ pc = "done"
  /\ mode = "Duplicate"
  /\ target = Primitive(Tuple(2, I16))
  /\ parts = << <<118, 61, 49>>, <<118, 61, 50>>, <<118, 61, 51>> >>
  /\ result = Err("InvalidLength")

\* the shapes Last-Write-Wins mode cannot express for the field "v": a
\* sequence, a tuple or array, a nested map or record, and an enum whose
\* value names a variant that is not a unit variant
IsCollectionBinding ==
  LET shape == target.f[<<118>>]
      occ == Occurrences(<<118>>)
      name == LiteralDecode(PartValue(occ[Len(occ)]), 0)
  IN \/ shape.k \in {"seq", "tuple", "map", "struct"}
     \/ /\ shape.k = "enum"
        /\ name \in DOMAIN shape.vs
        /\ shape.vs[name].k # "unit"

\* C8: under Last-Write-Wins mode, binding a field to a sequence, array,
\* tuple, nested map or non-unit enum variant fails with InvalidType,
\* whatever the query holds for the key.
C8_LastWriteWinsInvalidType ==
  (pc = "done" /\ mode = "UrlEncoded" /\ Len(Occurrences(<<118>>)) >= 1
     /\ IsCollectionBinding) =>
    result = Err("InvalidType")

\* the key of one part as written, percent-decoded
KeyPath(part) == PartKey(part)

\* no key path occurs twice in the query
NoKeyPathRepeated ==
  \A i, j \in 1..Len(parts) : i # j => KeyPath(parts[i]) # KeyPath(parts[j])

\* the parts of the query in the order p
Permuted(p) == [i \in 1..Len(parts) |-> parts[p[i]]]

\* the whole bracket-mode decode of a list of parts into the call's target
BracketsDecode(ps) ==
  QSDeserializer("Brackets", BracketsQS_parse(Join(ps), 0, EmptyMap), target)

PermutationInvariant ==
  \A p \in Permutations(1..Len(parts)) : BracketsDecode(Permuted(p)) = result

\* C3 as stated: under Bracket-Path mode, when no key path is repeated,
\* every permutation of the pairs of the query decodes to the same value.
C3_PermutationInvariant ==
  (pc = "done" /\ mode = "Brackets" /\ NoKeyPathRepeated) => PermutationInvariant

\* The scalar of the target that a key reaches, as the list of decoded
\* names from the root; <<>> when the key reaches none (an unknown field, or
\* a key that ends above a nested record or map).
NoShape == [k |-> "none"]

RECURSIVE Leaf(_, _, _)
Leaf(key, shape, path) ==
  LET name == parse_bytes(key.key).bytes
      field == IF shape.k = "map" THEN shape.e
               ELSE IF name \in DOMAIN shape.f THEN shape.f[name]
               ELSE NoShape
  IN IF field = NoShape THEN <<>>
     ELSE IF field.k \in {"struct", "map"}
     THEN IF subkey(key).some
          THEN Leaf([key |-> subkey(key).key, rem |-> subkey(key).rem], field,
                    Append(path, name))
          ELSE <<>>
     ELSE Append(path, name)

PartLeaf(part) ==
  LET k == Brackets_Key_parse(part, 0) IN
  Leaf([key |-> k.key, rem |-> k.rem], target, <<>>)

\* no two pairs of the query reach the same scalar of the target
NoLeafShared ==
  \A i, j \in 1..Len(parts) :
    i # j => (PartLeaf(parts[i]) = <<>> \/ PartLeaf(parts[i]) # PartLeaf(parts[j]))

\* C3 (amended): under Bracket-Path mode, when no key path is repeated and
\* no two pairs reach the same scalar field of the target (as "a=3" and
\* "a[b]=1" do for an integer field a), every permutation of the pairs
\* decodes to the same nested record or map, or to the same error.
C3_PermutationInvariantDistinctLeaves ==
  (pc = "done" /\ mode = "Brackets" /\ NoKeyPathRepeated /\ NoLeafShared) =>
    PermutationInvariant

\* "a[c]=2&a[b]=1&b=5" gives { a: { b: 1, c: Some(2) }, b: Some(5) }, as
\* every other order of the three pairs does.
C3_Witness ==
  /\ pc = "done"
  /\ parts = << <<97, 91, 99, 93, 61, 50>>, <<97, 91, 98, 93, 61, 49>>, <<98, 61, 53>> >>
  /\ target = Record(Child, Option(I16))
  /\ NoKeyPathRepeated /\ NoLeafShared
  /\ PermutationInvariant
  /\ result =
       Ok([k |-> "struct",
           m |-> (<<97>> :> [k |-> "struct",
                             m |-> (<<98>> :> [k |-> "int", n |-> 1]
                                    @@ <<99>> :> [k |-> "some", v |-> [k |-> "int", n |-> 2]])]
                  @@ <<98>> :> [k |-> "some", v |-> [k |-> "int", n |-> 5]])])

\* the variant a part of the query names for its key: the decoded first
\* sub-key, or the decoded value when the key has no sub-key
PartVariant(part) ==
  LET p == Brackets_Pair_parse(part).pair
      sk == subkey(p)
  IN IF sk.some THEN parse_bytes(sk.key).bytes
     ELSE parse_bytes(unwrap_or_default(p.value)).bytes

LastPart == parts[Len(parts)]

\* the pairs of the query that belong to the variant of the last pair
LastVariantParts ==
  SelectSeq(parts, LAMBDA part : PartVariant(part) = PartVariant(LastPart))

\* the enum bound to the field "v" by a successful decode
BoundEnum(r) == IF r.v.m[<<118>>].k = "some" THEN r.v.m[<<118>>].v ELSE r.v.m[<<118>>]

GroupCount == Cardinality({i \in 1..Len(Query) : Query[i] = LBR})

\* the name of the last group and the value of the query
LastGroup == Query[FindByte(Query, 0, {EQ}) - 1]
ChainValue == From(Query, FindByte(Query, 0, {EQ}) + 1)

\* the type the value is bound as
LeafShape == Field(ChainB(target.leaf), <<LastGroup>>)

\* the value is one its type accepts where depth remains: the text of a
\* scalar or of a sequence, or of a record with no field given
WellFormedValue ==
  IF LeafShape.k = "option" /\ LeafShape.e.k = "B" /\ ChainValue # <<>>
  THEN LET empty(k) == k.ok /\ ~k.v.some /\ k.v.stash.pairs = <<>>
       IN empty(Parser_parse_key(ChainValue, 0, 0, Stash_new(1)))
  ELSE Deserializer_deserialize(ChainValue, Deserializer_new - 1, LeafShape).ok

\* the value is bound as a record or as a sequence: it is not empty, and the
\* last group names field a (a B) or a field n that is a Vec
NestedValue ==
  /\ ChainValue # <<>>
  /\ \/ LastGroup = 97
     \/ LastGroup = 110 /\ target.leaf.k = "seq"

BareUnitPart == <<118, 61, 85>>

\* "v[N]=1", "v[N]=2": the newtype variant N as a bracket group of the key
BracketedVariantParts == { <<118, 91, 78, 93, 61, 49>>, <<118, 91, 78, 93, 61, 50>> }

\* the query gives the key both a bare unit variant and bracketed variants,
\* and nothing else
BareAndBracketed ==
  /\ \E i \in 1..Len(parts) : parts[i] = BareUnitPart
  /\ \E i \in 1..Len(parts) : parts[i] \in BracketedVariantParts
  /\ \A i \in 1..Len(parts) : parts[i] \in {BareUnitPart} \cup BracketedVariantParts

\* C10: when a key has both a bare-value unit-variant assignment and
\* bracketed-variant assignments, the bare value determines the variant
\* wherever it stands in the input and the sub-keys are ignored: the key is
\* decoded to the unit variant.
C10_BareValueWins ==
  (pc = "done" /\ mode = "Brackets" /\ target = Primitive(Enum) /\ BareAndBracketed) =>
    result = Ok([k |-> "struct",
                 m |-> (<<118>> :> [k |-> "enum", variant |-> <<85>>,
                                    v |-> [k |-> "unit"]])])

\* ------------------------------------------------------------------------
\* Claims about a unit variant written as a bracket group
\* ------------------------------------------------------------------------
\* "v[U]=", "v[U]": the unit variant U as a bracket group of the key, with
\* an empty and with an absent value
EmptyGroupUnitParts == { <<118, 91, 85, 93, 61>>, <<118, 91, 85, 93>> }

\* C11: under Bracket-Path mode a unit variant written as an empty bracket
\* group, "v[U]=" or "v[U]", decodes to the unit variant U exactly as
\* "v=U" does.
C11_UnitByEmptyGroup ==
  (pc = "done" /\ mode = "Brackets" /\ target = Primitive(Enum)
     /\ Len(parts) = 1 /\ parts[1] \in EmptyGroupUnitParts) =>
    /\ result = BracketsDecode(<<BareUnitPart>>)
    /\ result = Ok([k |-> "struct",
                    m |-> (<<118>> :> [k |-> "enum", variant |-> <<85>>,
                                       v |-> [k |-> "unit"]])])

\* ------------------------------------------------------------------------
\* Claims about the order of a sequence given with sub-keys
\* ------------------------------------------------------------------------
\* the sub-key text of a part "v[sub]=value", and its value text
PartSubkey(part) == subkey(Brackets_Pair_parse(part).pair).key
PartRaw(part) == unwrap_or_default(Brackets_Pair_parse(part).pair.value)

\* the sub-key is a decimal number
IsNumber(sub) == sub # <<>> /\ \A i \in 1..Len(sub) : IsDigit(sub[i])

\* the number a decimal sub-key denotes
RECURSIVE NumberOf(_)
NumberOf(sub) ==
  IF sub = <<>> THEN 0 ELSE NumberOf(SubSeq(sub, 1, Len(sub) - 1)) * 10 + (sub[Len(sub)] - 48)

AllNumbered == \A i \in 1..Len(parts) : IsNumber(PartSubkey(parts[i]))

\* the sequence bound to the field "v" by a successful decode
BoundItems == result.v.m[<<118>>].items

\* the bound sequence is the parts' values in the order p of the parts
BoundInOrder(p) ==
  /\ Len(BoundItems) = Len(parts)
  /\ \A k \in 1..Len(parts) :
       Ok(BoundItems[k]) = SliceDeserializer(PartRaw(parts[p[k]]), I16)

\* C12: under Bracket-Path mode the elements given with numeric sub-keys
\* are bound in ascending order of their index, whatever the order of the
\* pairs in the input.
C12_NumericAscending ==
  (pc = "done" /\ mode = "Brackets" /\ target = Primitive(Vec(I16)) /\ AllNumbered) =>
    /\ result.ok
    /\ \E p \in Permutations(1..Len(parts)) :
         /\ BoundInOrder(p)
         /\ \A j, k \in 1..Len(parts) :
              j < k => NumberOf(PartSubkey(parts[p[j]])) <= NumberOf(PartSubkey(parts[p[k]]))

\* "v[3]=7&v[2]=3&v[1]=1" gives [1, 3, 7].
C12_Witness ==
  /\ pc = "done"
  /\ parts = << <<118, 91, 51, 93, 61, 55>>, <<118, 91, 50, 93, 61, 51>>, <<118, 91, 49, 93, 61, 49>> >>
  /\ target = Primitive(Vec(I16))
  /\ result = Ok([k |-> "struct",
                  m |-> (<<118>> :> [k |-> "seq",
                                     items |-> << [k |-> "int", n |-> 1],
                                                  [k |-> "int", n |-> 3],
                                                  [k |-> "int", n |-> 7] >>])])

\* no sub-key is used by two parts of the query
DistinctSubkeys ==
  \A i, j \in 1..Len(parts) : i # j => PartSubkey(parts[i]) # PartSubkey(parts[j])

\* C13: when a Bracket-Path sequence mixes elements with an empty or a
\* named sub-key and elements with numeric sub-keys, the empty- and
\* named-sub-key elements are accepted and all of them are bound before
\* every numbered element.
C13_UnorderedBeforeNumbered ==
  (pc = "done" /\ mode = "Brackets" /\ target = Primitive(Vec(I16)) /\ DistinctSubkeys) =>
    /\ result.ok
    /\ \E p \in Permutations(1..Len(parts)) :
         /\ BoundInOrder(p)
         /\ \A j, k \in 1..Len(parts) :
              (~IsNumber(PartSubkey(parts[p[j]])) /\ IsNumber(PartSubkey(parts[p[k]])))
                => j < k

\* the parts that are the latest occurrence of their sub-key
LatestOfSubkey ==
  {i \in 1..Len(parts) :
     \A j \in 1..Len(parts) : j > i => PartSubkey(parts[j]) # PartSubkey(parts[i])}

\* C14: when the same sub-key is used more than once within one
\* Bracket-Path sequence, exactly one element survives for that sub-key,
\* the one of its latest occurrence in the input.
C14_RepeatedSubkeyCollapses ==
  (pc = "done" /\ mode = "Brackets" /\ target = Primitive(Vec(I16))
     /\ AllNumbered /\ ~DistinctSubkeys) =>
    /\ result.ok
    /\ Len(BoundItems) = Cardinality(LatestOfSubkey)
    /\ \A i \in LatestOfSubkey :
         \E k \in 1..Len(BoundItems) :
           Ok(BoundItems[k]) = SliceDeserializer(PartRaw(parts[i]), I16)

\* ------------------------------------------------------------------------
\* Claims about unclosed and percent-encoded brackets
\* ------------------------------------------------------------------------
\* the length of the key text of a part: up to its '=' or its end
KeyEnd(part) == FindByte(part, 0, {EQ, AMP})

\* an opening or a closing bracket stands at index j of the key, plain or
\* percent-encoded
OpensAt(part, j) ==
  \/ At(part, j) = LBR
  \/ /\ At(part, j) = PCT /\ j + 2 < KeyEnd(part)
     /\ parse_char(At(part, j + 1), At(part, j + 2)) = LBR

ClosesAt(part, j) ==
  \/ At(part, j) = RBR
  \/ /\ At(part, j) = PCT /\ j + 2 < KeyEnd(part)
     /\ parse_char(At(part, j + 1), At(part, j + 2)) = RBR

\* the key has an opening bracket that no closing bracket follows
Unclosed(part) ==
  \E j \in 0..(KeyEnd(part) - 1) :
    /\ OpensAt(part, j)
    /\ \A h \in (j + 1)..(KeyEnd(part) - 1) : ~ClosesAt(part, h)

\* the key has no closing bracket at all: no bracket group is terminated
NoGroupTerminated(part) == \A j \in 0..(KeyEnd(part) - 1) : ~ClosesAt(part, j)

\* the part with a ']' put at the end of a key whose last group is unclosed
Closed(part) ==
  IF Unclosed(part)
  THEN Sub(part, 0, KeyEnd(part)) \o <<RBR>> \o From(part, KeyEnd(part))
  ELSE part

ClosedParts == [i \in 1..Len(parts) |-> Closed(parts[i])]

\* C15 (as stated): under Bracket-Path mode an opening bracket that is never
\* closed creates no sub-key: a root key with no terminated bracket group is
\* treated in full, stray bracket included, as one flat literal key.
C15_UnclosedStaysLiteral ==
  (pc = "done" /\ mode = "Brackets") =>
    \A i \in 1..Len(parts) :
      (Unclosed(parts[i]) /\ NoGroupTerminated(parts[i])) =>
        LET flat == parse_bytes(Sub(parts[i], 0, KeyEnd(parts[i]))).bytes IN
        /\ flat \in DOMAIN table
        /\ \A k \in 1..Len(table[flat]) : ~subkey(table[flat][k]).some

\* C15 (amended): under Bracket-Path mode an opening bracket that is never
\* closed raises no error and still opens a sub-key, which runs to the end
\* of the key: when the pair has a value, the query decodes exactly as the
\* one with the missing ']' put at the end of the key.
C15_UnclosedOpensSubkey ==
  (pc = "done" /\ mode = "Brackets"
     /\ \A i \in 1..Len(parts) : Unclosed(parts[i]) => KeyEnd(parts[i]) < Len(parts[i])) =>
    /\ result = BracketsDecode(ClosedParts)
    /\ \A i \in 1..Len(parts) :
         Unclosed(parts[i]) =>
           \E k \in 1..Len(table[<<97>>]) : subkey(table[<<97>>][k]).some

\* "a[b=1" binds the field a to the map {b: 1}.
C15_Witness ==
  /\ pc = "done"
  /\ parts = << <<97, 91, 98, 61, 49>> >>
  /\ target = Record(HashMap(I16), Option(I16))
  /\ result = Ok([k |-> "struct",
                  m |-> (<<97>> :> [k |-> "map", m |-> (<<98>> :> [k |-> "int", n |-> 1])]
                         @@ <<98>> :> [k |-> "none"])])

\* the part with every percent-encoded bracket of its key, from index i on,
\* written as the plain bracket
RECURSIVE Plain(_, _)
Plain(part, i) ==
  IF i >= KeyEnd(part) THEN From(part, i)
  ELSE IF At(part, i) # PCT /\ OpensAt(part, i) THEN <<LBR>> \o Plain(part, i + 1)
  ELSE IF OpensAt(part, i) THEN <<LBR>> \o Plain(part, i + 3)
  ELSE IF At(part, i) # PCT /\ ClosesAt(part, i) THEN <<RBR>> \o Plain(part, i + 1)
  ELSE IF ClosesAt(part, i) THEN <<RBR>> \o Plain(part, i + 3)
  ELSE <<At(part, i)>> \o Plain(part, i + 1)

PlainParts == [i \in 1..Len(parts) |-> Plain(parts[i], 0)]

\* C16: under Bracket-Path mode, writing a bracket of a key as %5B or %5b,
\* %5D or %5d, in any mixture, does not change the decoded result: the
\* query decodes as the one with plain brackets.
C16_EncodedBrackets ==
  (pc = "done" /\ mode = "Brackets") => result = BracketsDecode(PlainParts)

\* "a%5Bb%5D%5Bc%5d=4" binds the field a to the map {b: {c: 4}}.
C16_Witness ==
  /\ pc = "done"
  /\ parts = << <<97, 37, 53, 66, 98, 37, 53, 68, 37, 53, 66, 99, 37, 53, 100, 61, 52>> >>
  /\ PlainParts # parts
  /\ target = Record(HashMap(HashMap(I16)), Option(I16))
  /\ result = Ok([k |-> "struct",
                  m |-> (<<97>> :> [k |-> "map",
                                    m |-> (<<98>> :> [k |-> "map",
                                                      m |-> (<<99>> :> [k |-> "int", n |-> 4])])]
                         @@ <<98>> :> [k |-> "none"])])

\* ------------------------------------------------------------------------
\* Claims about the delimiter-separated values of a key
\* ------------------------------------------------------------------------
\* the substrings of a raw value between the occurrences of d
RECURSIVE Split(_, _)
Split(raw, d) ==
  IF \E j \in 1..Len(raw) : raw[j] = d
  THEN LET at == FindByte(raw, 0, {d}) IN
       <<Sub(raw, 0, at)>> \o Split(From(raw, at + 1), d)
  ELSE <<raw>>

\* the raw value the query gives the key "v", and its substrings
ValueOfV == unwrap_or_default(table[<<118>>].value)
Tokens == Split(ValueOfV, delimiter)

\* the result of a call that binds the field "v" to the elements read from
\* the raw slices items
BindingOf(items) ==
  and_then(visit_seq(items, 1, target.f[<<118>>].e, <<>>),
           LAMBDA v : Ok([k |-> "struct", m |-> (<<118>> :> v)]))

\* C17: under Delimited-Sequence mode with the delimiter d of the call, an
\* unbounded sequence is bound to the ordered list of the substrings of the
\* raw value between the occurrences of d, empty substrings included, each
\* percent-decoded on its own.
C17_SplitAtEveryDelimiter ==
  (pc = "done" /\ mode = "Delimiter" /\ target.f[<<118>>].k = "seq"
     /\ <<118>> \in DOMAIN table) =>
    result = BindingOf(Tokens)

\* the raw value after its first k occurrences of d
RECURSIVE RestAfter(_, _, _)
RestAfter(raw, d, k) ==
  IF k = 0 THEN raw ELSE RestAfter(From(raw, FindByte(raw, 0, {d}) + 1), d, k - 1)

\* the call binds the field "v" to a tuple and the query gives the key "v"
TupleBound ==
  /\ pc = "done"
  /\ mode = "Delimiter"
  /\ target.f[<<118>>].k = "tuple"
  /\ <<118>> \in DOMAIN table

\* C18 (as stated): under Delimited-Sequence mode, binding a tuple of n
\* elements to a value that splits into a number of tokens other than n
\* fails with InvalidLength.
C18_WrongArityInvalidLength ==
  (TupleBound /\ Len(Tokens) # target.f[<<118>>].n) => result = Err("InvalidLength")

\* C18 (amended): under Delimited-Sequence mode, a value that splits into
\* more than n tokens is bound to the tuple of its first n - 1 tokens and,
\* as the last element, the undivided rest of the value; a value that
\* splits into fewer than n tokens fails, with the error of a token that
\* does not convert or with the binding protocol's generic Other error;
\* InvalidLength is never raised.
C18_WrongArityRecovers ==
  TupleBound =>
    LET n == target.f[<<118>>].n IN
    /\ Len(Tokens) > n =>
         result = BindingOf(SubSeq(Tokens, 1, n - 1)
                            \o <<RestAfter(ValueOfV, delimiter, n - 1)>>)
    /\ Len(Tokens) < n =>
         /\ ~result.ok
         /\ \/ result = Err("Other")
            \/ \E i \in 1..Len(Tokens) :
                 result = SliceDeserializer(Tokens[i], target.f[<<118>>].e)
    /\ result # Err("InvalidLength")

\* "v=1|3|7" with '|' into (String, String) gives ("1", "3|7").
C18_Witness ==
  /\ pc = "done"
  /\ mode = "Delimiter"
  /\ delimiter = Delimiter
  /\ parts = << <<118, 61, 49, 124, 51, 124, 55>> >>
  /\ target = Primitive(Tuple(2, String))
  /\ result = Ok([k |-> "struct",
                  m |-> (<<118>> :> [k |-> "seq",
                                     items |-> << [k |-> "string", s |-> <<49>>],
                                                  [k |-> "string", s |-> <<51, 124, 55>>] >>])])

\* ------------------------------------------------------------------------
\* Claims about an empty value and about booleans
\* ------------------------------------------------------------------------
\* "v=": the key with an empty value
EmptyValuePart == <<118, 61>>

\* C19: a key that is present with an empty value and no nested structure
\* binds, for a text-typed optional field, to None under every parse mode.
C19_EmptyValueIsNone ==
  (pc = "done" /\ target = Primitive(Option(String)) /\ parts = <<EmptyValuePart>>) =>
    result = Ok([k |-> "struct", m |-> (<<118>> :> [k |-> "none"])])

\* the value of the query's pair as it is written
WrittenValue == From(parts[1], FindByte(parts[1], 0, {EQ}) + 1)

\* "", "1", "on", "true" and "0", "off", "false"
TrueLiterals == { <<>>, <<49>>, <<111, 110>>, <<116, 114, 117, 101>> }
FalseLiterals == { <<48>>, <<111, 102, 102>>, <<102, 97, 108, 115, 101>> }

\* the result of a call that binds the field "v" to the boolean b
BoundBool(b) == Ok([k |-> "struct", m |-> (<<118>> :> [k |-> "bool", b |-> b])])

BoundInt(n) == Ok([k |-> "struct", m |-> (<<118>> :> [k |-> "int", n |-> n])])

\* the integer type of the field "v"
FieldType == target.f[<<118>>]

\* the written value without the minus sign a signed type allows
Unsigned(v) == IF FieldType.lo < 0 /\ v # <<>> /\ v[1] = 45 THEN Tail(v) ELSE v

\* the integer the written value denotes as a decimal literal
Denoted(v) == IF Unsigned(v) = v THEN NumberOf(v) ELSE 0 - NumberOf(Tail(v))

\* C21: an integer field decodes exactly when its value is a non-empty
\* decimal literal, with a leading '-' only for signed types, whose value
\* lies in the range of the type; every other value fails with
\* InvalidNumber.
C21_DecimalLiteralOnly ==
  (pc = "done" /\ FieldType.k = "int") =>
    IF IsNumber(Unsigned(WrittenValue))
       /\ Denoted(WrittenValue) >= FieldType.lo
       /\ Denoted(WrittenValue) <= FieldType.hi
    THEN result = BoundInt(Denoted(WrittenValue))
    ELSE result = Err("InvalidNumber")

\* C22: every call of the typed entry point returns a value or a typed
\* error; no unwrap or expect of the binding adapter fails, whatever the
\* input, the parse mode and the target shape.
C22_NoAssertionFails ==
  pc = "done" => (result.ok \/ result.kind # "Panic")

\* the slice the pending iteration parses its pair from
Rest == From(slice, index)

\* the offsets at which the pending iteration takes a tail of a slice,
\* each with the length of that slice: slice[index..] and the tail after
\* the key, and in bracket mode the tail after the opening bracket
TailStarts ==
  IF mode = "Brackets"
  THEN LET k == Brackets_Key_parse(Rest, 0)
           open == Len(k.key)
       IN {<<index, Len(slice)>>, <<k.len, Len(Rest)>>}
          \cup (IF k.rem.some
                THEN {<<(IF At(Rest, open) = LBR THEN open + 1 ELSE open + 3), Len(Rest)>>}
                ELSE {})
  ELSE {<<index, Len(slice)>>, <<Key_parse(Rest, 0), Len(Rest)>>}

\* the table maps decoded keys to pairs (to lists of pairs where repeated
\* keys are kept)
IsPairTable ==
  \A key \in DOMAIN table :
    /\ \A i \in 1..Len(key) : key[i] \in 0..255
    /\ IF mode \in {"Duplicate", "Brackets"}
       THEN Len(table[key]) >= 1
       ELSE parse_bytes(table[key].key).bytes = key

\* C23: the parse of every mode terminates with a pair table for every
\* input: each iteration of the loop moves the scan index forward by at
\* least one byte and at most one byte past the end of the input, no tail
\* of a slice is taken beyond the slice's end, and what is returned is the
\* table, never an error.
C23_ParseTerminates ==
  [][/\ pc' = "parsing" => (index' > index /\ index' <= Len(slice) + 1)
     /\ (pc = "parsing" /\ index < Len(slice)) =>
          \A t \in TailStarts : t[1] <= t[2]
     /\ pc' = "parsed" => (IsPairTable /\ result' = NoResult)]_vars

\* "a%5&=" parsed to its end in bracket mode.
C23_Witness ==
  /\ pc = "parsed"
  /\ mode = "Brackets"
  /\ parts = <<<<97, 37, 53>>, <<61>>>>
  /\ DOMAIN table = {<<97, 37, 53>>, <<>>}

Descents == {table[i] : i \in 1..Len(table)}

\* C25: every descent into a nested shape gives the child the parent's
\* remaining depth minus one, and `remaining_depth - 1` is never evaluated
\* at 0: the counter neither underflows (a panic) nor is reset (a wrap to the
\* largest u16); at depth 0 decoding fails with MaximumDepthReached instead.
C25_DepthCountsDown ==
  (mode = "PairMap" /\ pc = "done") =>
    /\ \A d \in Descents : d[1] > 0 /\ d[2] = d[1] - 1
    /\ result.ok \/ result.kind # "Panic"


\* ------------------------------------------------------------------------
\* Claims about the offset of an encoding error
\* ------------------------------------------------------------------------
\* The offset in s, from i on, at which the decoded byte number d starts:
\* every escape stands for one decoded byte and three original ones.
RECURSIVE OriginalOffset(_, _, _)
OriginalOffset(s, i, d) ==
  IF d = 0 THEN i
  ELSE IF EscapeAt(s, i) THEN OriginalOffset(s, i + 3, d - 1)
  ELSE OriginalOffset(s, i + 1, d - 1)

\* C26: the offset reported with InvalidEncoding refers to the original,
\* still encoded value: the offset of the first invalid byte of the decoded
\* bytes plus 2 for every escape before it.
C26_OffsetInOriginal ==
  (pc \in {"RawSlice", "ValueDeserializer"} /\ ~result.ok) =>
    /\ result.kind = "InvalidEncoding"
    /\ result.index = OriginalOffset(slice, 0, valid_up_to(parse_bytes(slice).bytes, 0))


\* ------------------------------------------------------------------------
\* Claims about the conversion of values written with escapes
\* ------------------------------------------------------------------------
\* The field "v" bound to the outcome r of a conversion.
BoundTo(r) == IF r.ok THEN Ok([k |-> "struct", m |-> (<<118>> :> r.v)]) ELSE r

\* The percent-decoded form of the written value.
DecodedValue == parse_bytes(WrittenValue).bytes

\* C27: boolean and integer parsing is applied to the percent-decoded value:
\* binding a raw value to a bool or integer field gives what binding its
\* decoded form gives ("%6Fn" is "on", "%31" is "1").
C27_ParsedAfterDecoding ==
  (pc = "done" /\ parts \in {<<text>> : text \in EscapedTexts}) =>
    /\ FieldType.k = "bool" => result = BoundTo(parse_bool(DecodedValue))
    /\ FieldType.k = "int" =>
         result = BoundTo(parse_int(DecodedValue, FieldType.lo, FieldType.hi))


\* ------------------------------------------------------------------------
\* Claims about keys written with escapes
\* ------------------------------------------------------------------------
\* A pair with its key replaced by the bytes the key decodes to.
WithDecodedKey(part) ==
  parse_bytes(Sub(part, 0, FindByte(part, 0, {EQ}))).bytes
    \o From(part, FindByte(part, 0, {EQ}))

\* The query of the call with every key written as it decodes.
DecodedKeysQuery == Join([i \in 1..Len(parts) |-> WithDecodedKey(parts[i])])

\* C28: pairs whose keys percent-decode to the same bytes are occurrences of
\* one key in every mode: the call gives what it gives for the query whose
\* keys are written in their decoded form.
C28_DecodedKeysGroup ==
  (pc = "done" /\ parts \in PartsUpTo(SameKeyTexts, MaxPairs)) =>
    result = serde_querystring_from_str(DecodedKeysQuery, mode, target)


\* ------------------------------------------------------------------------
\* Claims about extra separators
\* ------------------------------------------------------------------------
\* The pairs of the query without its empty segments.
WrittenPairs == SelectSeq(parts, LAMBDA part : part # <<>>)

\* C29: extra '&' separators at the start, at the end or between the pairs
\* do not change the decoded result, under every parse mode.
C29_ExtraAmpersands ==
  (pc = "done" /\ parts \in PartsUpTo(AmpersandTexts, MaxPairs)) =>
    result = serde_querystring_from_str(Join(WrittenPairs), mode, target)


\* ------------------------------------------------------------------------
\* Claims about the lookups of the bracket table
\* ------------------------------------------------------------------------
\* The number of pairs in all groups of a table.
RECURSIVE PairCount(_)
PairCount(pairs) ==
  IF DOMAIN pairs = {} THEN 0
  ELSE LET k == CHOOSE x \in DOMAIN pairs : TRUE
       IN Len(pairs[k]) + PairCount([x \in DOMAIN pairs \ {k} |-> pairs[x]])

\* C30: every pair stored under a key is reported by exactly one of
\* values(key) and sub_values(key): a pair is a direct value exactly when it
\* is not moved one level down, so the two reports together hold each pair
\* of the key once, also for unterminated bracket groups and groups followed
\* by other bytes.
C30_ValuesPartition ==
  (pc = "looked") =>
    /\ \A i \in 1..Len(table[result.v.key]) :
         ~has_subkey(table[result.v.key][i]) <=> ~subkey(table[result.v.key][i]).some
    /\ Len(result.v.values.values) + PairCount(result.v.sub_values.pairs)
         = Len(table[result.v.key])

====
